---- MODULE Spec2Model ----
(***************************************************************************)
(* Model of the presentation-package merger, services/pptx_merger.py:      *)
(* PPTXMerger.add_slide / merge and the steps merge() runs in order        *)
(* (_extract_sources, _prepare_base, _process_slides with _import_part,    *)
(* _process_relationships and _ensure_master_registered,                   *)
(* _update_content_types, _repackage, _cleanup).                           *)
(*                                                                         *)
(* A package is a tree of files.  A file name is a record                  *)
(*   [dir, stem, num, tag, ext, rels]                                      *)
(* standing for  dir/stem{num}[_{tag}].ext  (num = 0, tag = 0: absent);    *)
(* rels = TRUE is the sidecar  dir/_rels/<name>.rels  of that part.        *)
(* Part paths are relative to ppt/ as in the code; trees are keyed by      *)
(* paths relative to the package root.                                     *)
(***************************************************************************)
EXTENDS Integers, Sequences, FiniteSets, TLC

\* ------------------------------------------------------------------ bounds
MaxRequests == 3

\* ------------------------------------------------------------------ paths
P(dir, stem, num, ext) ==
    [dir |-> dir, stem |-> stem, num |-> num, tag |-> 0, ext |-> ext, rels |-> FALSE]

\* old_path_obj.parent / "_rels" / f"{old_path_obj.name}.rels"
RelsOf(p) == [p EXCEPT !.rels = TRUE]

\* <root> / "ppt" / part_path
InPpt(p) == [p EXCEPT !.dir = <<"ppt">> \o @]

\* Path.relative_to(<root> / "ppt"); callers test UnderPpt first (ValueError)
UnderPpt(p) == Len(p.dir) >= 1 /\ p.dir[1] = "ppt"
FromPpt(p) == [p EXCEPT !.dir = Tail(@)]

\* Path(part_path).suffix without the dot
Suffix(p) == IF p.rels THEN "rels" ELSE p.ext

\* A relationship Target as written in a .rels file: absolute ("/a/b/x.xml"),
\* or relative to the directory of the owning part with `up` leading "..".
T(abs, up, dir, stem, num, ext) ==
    [abs |-> abs, up |-> up, dir |-> dir, stem |-> stem, num |-> num,
     tag |-> 0, ext |-> ext]

\* A ppt-relative path written out as a Target string ("slides/slide3.xml")
AsTarget(p) ==
    [abs |-> FALSE, up |-> 0, dir |-> p.dir, stem |-> p.stem, num |-> p.num,
     tag |-> p.tag, ext |-> p.ext]

\* A Target string taken verbatim as a part path (rel.get("Target") handed to
\* _import_part): "/ppt/slides/slide1.xml" loses its leading "/" only.
\* Fixture targets in presentation.xml.rels have no leading "..".
AsPartPath(t) ==
    [dir |-> t.dir, stem |-> t.stem, num |-> t.num, tag |-> t.tag,
     ext |-> t.ext, rels |-> FALSE]

Rel(id, type, target) == [Id |-> id, Type |-> type, Target |-> target]

\* a sequence without its last n elements
DropLast(s, n) == SubSeq(s, 1, Len(s) - n)

RECURSIVE CommonPrefixLen(_, _)
CommonPrefixLen(a, b) ==
    IF a = <<>> \/ b = <<>> \/ Head(a) # Head(b) THEN 0
    ELSE 1 + CommonPrefixLen(Tail(a), Tail(b))

\* os.path.relpath(<work>/ppt/target, <work>/ppt/from_dir)
RelPath(target, from_dir) ==
    LET c == CommonPrefixLen(target.dir, from_dir)
    IN  [abs |-> FALSE, up |-> Len(from_dir) - c,
         dir |-> SubSeq(target.dir, c + 1, Len(target.dir)),
         stem |-> target.stem, num |-> target.num, tag |-> target.tag,
         ext |-> target.ext]

\* pathlib joins a string to a path component by component and drops the
\* empty components: "a//b" is a/b
RECURSIVE Collapse(_)
Collapse(dir) ==
    IF dir = <<>> THEN <<>>
    ELSE IF Head(dir) = "" THEN Collapse(Tail(dir))
    ELSE <<Head(dir)>> \o Collapse(Tail(dir))

\* (<extracted>/ppt/<base_dir>/<target>).resolve(), or <extracted>/<target>
\* for an absolute target, as a path from the package root.  escaped: the
\* target climbs above the package root.
ResolveInSource(base_dir, t) ==
    LET from == <<"ppt">> \o base_dir
    IN  IF t.abs
        THEN [escaped |-> FALSE, path |-> [AsPartPath(t) EXCEPT !.dir = Collapse(t.dir)]]
        ELSE IF t.up > Len(from)
        THEN [escaped |-> TRUE, path |-> AsPartPath(t)]
        ELSE [escaped |-> FALSE,
              path |-> [AsPartPath(t) EXCEPT
                           !.dir = DropLast(from, t.up) \o Collapse(t.dir)]]

\* (<work>/ppt/<base_dir>/<target>).resolve() in _ensure_master_registered:
\* joining an absolute target replaces the whole path, so it leaves the tree.
ResolveInWork(base_dir, t) ==
    IF t.abs THEN [escaped |-> TRUE, path |-> AsPartPath(t)]
    ELSE ResolveInSource(base_dir, t)

\* ------------------------------------------------------------- id numbers
\* The id attributes of <sldId> and <sldMasterId> are decimal numbers up to
\* 2^32 - 1.  An id n is held as [hi, lo] with n = hi * 2^31 + lo.
Id(hi, lo) == [hi |-> hi, lo |-> lo]
IdLess(a, b) == a.hi < b.hi \/ (a.hi = b.hi /\ a.lo < b.lo)
IdSucc(a) == IF a.lo = 2147483647 THEN Id(a.hi + 1, 0) ELSE Id(a.hi, a.lo + 1)
IdMax(S) == CHOOSE a \in S : \A b \in S : ~IdLess(a, b)
AtLeast2To31(a) == a.hi >= 1

\* --------------------------------------------------------- source packages
\* Part names of the fixtures (relative to ppt/)
Presentation == P(<<>>, "presentation", 0, "xml")
Slide(n) == P(<<"slides">>, "slide", n, "xml")
Layout(n) == P(<<"slideLayouts">>, "slideLayout", n, "xml")
Master(n) == P(<<"slideMasters">>, "slideMaster", n, "xml")
Theme(n) == P(<<"theme">>, "theme", n, "xml")
Image(n, ext) == P(<<"media">>, "image", n, ext)
Notes(n) == P(<<"notesSlides">>, "notesSlide", n, "xml")
\* files outside ppt/
ContentTypesFile == P(<<>>, "[Content_Types]", 0, "xml")
RootRels == [dir |-> <<>>, stem |-> "", num |-> 0, tag |-> 0, ext |-> "", rels |-> TRUE]
AppProps == P(<<"docProps">>, "app", 0, "xml")

\* "../<dir>/<name>", the form PowerPoint and python-pptx write in part .rels
Up(p) == T(FALSE, 1, p.dir, p.stem, p.num, p.ext)
\* "<dir>/<name>", the form they write in presentation.xml.rels
Down(p) == T(FALSE, 0, p.dir, p.stem, p.num, p.ext)
\* "/ppt/<dir>/<name>", the absolute form the packaging conventions also allow
Abs(p) == T(TRUE, 0, <<"ppt">> \o p.dir, p.stem, p.num, p.ext)

\* One part of a fixture: its path from the package root, whether its bytes
\* are in the archive, and its relationships (sidecar: whether it has a .rels)
Part(p, bytes, sidecar, rels) ==
    [p |-> p, bytes |-> bytes, sidecar |-> sidecar, rels |-> rels]
Leaf(p) == Part(p, TRUE, FALSE, <<>>)

\* The extracted tree of a fixture: path from the root -> file.  A file is
\* [src, orig, rels]: whose bytes it holds, and, for a sidecar, its entries.
TreeOf(s, parts) ==
    LET plain == {d.p : d \in {e \in parts : e.bytes}}
        side == {RelsOf(d.p) : d \in {e \in parts : e.sidecar}}
    IN  [q \in plain \cup side |->
            [src |-> s, orig |-> q,
             rels |-> IF q.rels
                      THEN (CHOOSE d \in parts : d.sidecar /\ RelsOf(d.p) = q).rels
                      ELSE <<>>]]

RootParts ==
    { Leaf(ContentTypesFile), Leaf(AppProps),
      Part(P(<<>>, "", 0, ""), FALSE, TRUE,
           <<Rel(1, "officeDocument", Down(InPpt(Presentation)))>>) }

LayoutMasterTheme ==
    { Part(InPpt(Layout(1)), TRUE, TRUE, <<Rel(1, "slideMaster", Up(Master(1)))>>),
      Part(InPpt(Master(1)), TRUE, TRUE,
           <<Rel(1, "slideLayout", Up(Layout(1))), Rel(2, "theme", Up(Theme(1)))>>),
      Leaf(InPpt(Theme(1))) }

\* <Override PartName=... ContentType=.../>; part names are paths from the root
Override(p, ct) == [PartName |-> p, ContentType |-> ct]

BaseOverrides ==
    << Override(InPpt(Layout(1)), "slideLayout+xml"),
       Override(InPpt(Master(1)), "slideMaster+xml"),
       Override(InPpt(Theme(1)), "theme+xml"),
       Override(AppProps, "extended-properties+xml") >>

\* The Target "http://example.com/page" of a hyperlink relationship
\* (TargetMode="External", an attribute the merger does not read): split at
\* "/" it has an empty component after the scheme
Url == T(FALSE, 0, <<"http:", "", "example.com">>, "page", 0, "")

\* A: two slides, written the way PowerPoint writes a package; slide 1 holds
\* a hyperlink
PkgA ==
    [zip_ok |-> TRUE,
     files |-> TreeOf("A", RootParts \cup LayoutMasterTheme \cup
        { Part(InPpt(Presentation), TRUE, TRUE,
               <<Rel(1, "slideMaster", Down(Master(1))), Rel(2, "slide", Down(Slide(1))),
                 Rel(3, "slide", Down(Slide(2))), Rel(4, "theme", Down(Theme(1)))>>),
          Part(InPpt(Slide(1)), TRUE, TRUE,
               <<Rel(1, "slideLayout", Up(Layout(1))), Rel(2, "hyperlink", Url)>>),
          Part(InPpt(Slide(2)), TRUE, TRUE,
               <<Rel(1, "slideLayout", Up(Layout(1))), Rel(2, "image", Up(Image(1, "png")))>>),
          Leaf(InPpt(Image(1, "png"))) }),
     pres |-> [sldMasterIdLst |-> <<[id |-> Id(1, 0), rid |-> 1]>>,
               sldIdLst |-> <<[id |-> Id(0, 256), rid |-> 2], [id |-> Id(0, 257), rid |-> 3]>>,
               extLst |-> TRUE, custShowLst |-> TRUE],
     ct |-> [defaults |-> ("rels" :> "relationships+xml") @@ ("xml" :> "xml") @@ ("png" :> "image/png"),
             overrides |-> <<Override(InPpt(Presentation), "presentation.main+xml")>>
                 \o BaseOverrides
                 \o <<Override(InPpt(Slide(1)), "slide+xml"), Override(InPpt(Slide(2)), "slide+xml")>>]]

\* B: one slide, the same part names as A, an image type A does not declare
\* (and a Default for png, which it does not use), and a notes slide that
\* points back at its slide
PkgB ==
    [zip_ok |-> TRUE,
     files |-> TreeOf("B", RootParts \cup LayoutMasterTheme \cup
        { Part(InPpt(Presentation), TRUE, TRUE,
               <<Rel(1, "slideMaster", Down(Master(1))), Rel(2, "slide", Down(Slide(1))),
                 Rel(3, "theme", Down(Theme(1)))>>),
          Part(InPpt(Slide(1)), TRUE, TRUE,
               <<Rel(1, "slideLayout", Up(Layout(1))), Rel(2, "image", Up(Image(1, "jpeg"))),
                 Rel(3, "notesSlide", Up(Notes(1)))>>),
          Part(InPpt(Notes(1)), TRUE, TRUE, <<Rel(1, "slide", Up(Slide(1)))>>),
          Leaf(InPpt(Image(1, "jpeg"))) }),
     pres |-> [sldMasterIdLst |-> <<[id |-> Id(1, 0), rid |-> 1]>>,
               sldIdLst |-> <<[id |-> Id(0, 256), rid |-> 2]>>,
               extLst |-> FALSE, custShowLst |-> FALSE],
     ct |-> [defaults |-> ("rels" :> "relationships+xml") @@ ("xml" :> "xml")
                             @@ ("jpeg" :> "image/jpeg") @@ ("png" :> "image/png"),
             overrides |-> <<Override(InPpt(Presentation), "presentation.main+xml")>>
                 \o BaseOverrides
                 \o <<Override(InPpt(Slide(1)), "slide+xml"), Override(InPpt(Notes(1)), "notesSlide+xml")>>]]

\* C: the deviations the design names: the bytes of slide 2 and of the image
\* of slide 1 are not in the archive, [Content_Types].xml has no Override for
\* the presentation, and the master list numbers its master below 2^31
PkgC ==
    [zip_ok |-> TRUE,
     files |-> TreeOf("C", RootParts \cup LayoutMasterTheme \cup
        { Part(InPpt(Presentation), TRUE, TRUE,
               <<Rel(1, "slideMaster", Down(Master(1))), Rel(2, "slide", Down(Slide(1))),
                 Rel(3, "slide", Down(Slide(2))), Rel(4, "theme", Down(Theme(1)))>>),
          Part(InPpt(Slide(1)), TRUE, TRUE,
               <<Rel(1, "slideLayout", Up(Layout(1))), Rel(2, "image", Up(Image(1, "png")))>>),
          Part(InPpt(Slide(2)), FALSE, TRUE, <<Rel(1, "slideLayout", Up(Layout(1)))>>) }),
     pres |-> [sldMasterIdLst |-> <<[id |-> Id(0, 256), rid |-> 1]>>,
               sldIdLst |-> <<[id |-> Id(0, 256), rid |-> 2], [id |-> Id(0, 257), rid |-> 3]>>,
               extLst |-> FALSE, custShowLst |-> FALSE],
     ct |-> [defaults |-> ("rels" :> "relationships+xml") @@ ("xml" :> "xml"),
             overrides |-> BaseOverrides
                 \o <<Override(InPpt(Slide(1)), "slide+xml"), Override(InPpt(Slide(2)), "slide+xml")>>]]

\* D: one slide; presentation.xml.rels names the master by an absolute
\* target; the slide has a relationship to customXml/item1.xml, a part
\* outside ppt/, and its notes slide lies one directory deeper than the parts
\* the merger writes, at notesSlides/v2/notesSlide1.xml
DeepNotes == P(<<"notesSlides", "v2">>, "notesSlide", 1, "xml")
CustomXml == T(FALSE, 2, <<"customXml">>, "item", 1, "xml")
PkgD ==
    [zip_ok |-> TRUE,
     files |-> TreeOf("D", RootParts \cup LayoutMasterTheme \cup
        { Part(InPpt(Presentation), TRUE, TRUE,
               <<Rel(1, "slideMaster", Abs(Master(1))), Rel(2, "slide", Down(Slide(1))),
                 Rel(3, "theme", Down(Theme(1)))>>),
          Part(InPpt(Slide(1)), TRUE, TRUE,
               <<Rel(1, "slideLayout", Up(Layout(1))), Rel(2, "customXml", CustomXml),
                 Rel(3, "notesSlide", Up(DeepNotes))>>),
          Part(InPpt(DeepNotes), TRUE, TRUE,
               <<Rel(1, "slide", T(FALSE, 2, <<"slides">>, "slide", 1, "xml"))>>),
          Leaf(P(<<"customXml">>, "item", 1, "xml")) }),
     pres |-> [sldMasterIdLst |-> <<[id |-> Id(1, 0), rid |-> 1]>>,
               sldIdLst |-> <<[id |-> Id(0, 256), rid |-> 2]>>,
               extLst |-> FALSE, custShowLst |-> FALSE],
     ct |-> [defaults |-> ("rels" :> "relationships+xml") @@ ("xml" :> "xml"),
             overrides |-> <<Override(InPpt(Presentation), "presentation.main+xml")>>
                 \o BaseOverrides
                 \o <<Override(InPpt(Slide(1)), "slide+xml"),
                      Override(InPpt(DeepNotes), "notesSlide+xml")>>]]

\* E: one slide; presentation.xml.rels names the slide and the master by
\* absolute targets
PkgE ==
    [zip_ok |-> TRUE,
     files |-> TreeOf("E", RootParts \cup LayoutMasterTheme \cup
        { Part(InPpt(Presentation), TRUE, TRUE,
               <<Rel(1, "slideMaster", Abs(Master(1))), Rel(2, "slide", Abs(Slide(1))),
                 Rel(3, "theme", Down(Theme(1)))>>),
          Part(InPpt(Slide(1)), TRUE, TRUE, <<Rel(1, "slideLayout", Up(Layout(1)))>>) }),
     pres |-> [sldMasterIdLst |-> <<[id |-> Id(1, 0), rid |-> 1]>>,
               sldIdLst |-> <<[id |-> Id(0, 256), rid |-> 2]>>,
               extLst |-> FALSE, custShowLst |-> FALSE],
     ct |-> [defaults |-> ("rels" :> "relationships+xml") @@ ("xml" :> "xml"),
             overrides |-> <<Override(InPpt(Presentation), "presentation.main+xml")>>
                 \o BaseOverrides \o <<Override(InPpt(Slide(1)), "slide+xml")>>]]

\* F: a package this merger wrote earlier: one slide whose notes slide lies
\* where _import_part puts a part of unknown type, at other/notesSlide1_1.xml
MergedNotes == [Notes(1) EXCEPT !.dir = <<"other">>, !.tag = 1]
PkgF ==
    [zip_ok |-> TRUE,
     files |-> TreeOf("F", RootParts \cup LayoutMasterTheme \cup
        { Part(InPpt(Presentation), TRUE, TRUE,
               <<Rel(1, "slideMaster", Down(Master(1))), Rel(2, "theme", Down(Theme(1))),
                 Rel(3, "slide", Down(Slide(1)))>>),
          Part(InPpt(Slide(1)), TRUE, TRUE,
               <<Rel(1, "slideLayout", Up(Layout(1))),
                 Rel(2, "notesSlide", [Up(MergedNotes) EXCEPT !.tag = 1])>>),
          Part(InPpt(MergedNotes), TRUE, TRUE, <<Rel(1, "slide", Up(Slide(1)))>>) }),
     pres |-> [sldMasterIdLst |-> <<[id |-> Id(1, 0), rid |-> 1]>>,
               sldIdLst |-> <<[id |-> Id(0, 256), rid |-> 3]>>,
               extLst |-> FALSE, custShowLst |-> FALSE],
     ct |-> [defaults |-> ("rels" :> "relationships+xml") @@ ("xml" :> "xml"),
             overrides |-> <<Override(InPpt(Presentation), "presentation.main+xml")>>
                 \o BaseOverrides
                 \o <<Override(InPpt(Slide(1)), "slide+xml"),
                      Override(InPpt(MergedNotes), "notesSlide+xml")>>]]

NoPres == [sldMasterIdLst |-> <<>>, sldIdLst |-> <<>>, extLst |-> FALSE, custShowLst |-> FALSE]

\* N: a ZIP archive that is no presentation (it has no ppt/presentation.xml)
PkgN ==
    [zip_ok |-> TRUE,
     files |-> TreeOf("N", RootParts),
     pres |-> NoPres,
     ct |-> [defaults |-> ("rels" :> "relationships+xml") @@ ("xml" :> "xml"),
             overrides |-> <<Override(AppProps, "extended-properties+xml")>>]]

\* X: the file at the source path is missing or is not a ZIP archive
PkgX ==
    [zip_ok |-> FALSE, files |-> <<>>, pres |-> NoPres,
     ct |-> [defaults |-> <<>>, overrides |-> <<>>]]

Sources == {"A", "B", "C", "D", "E", "F", "N", "X"}

Pkg(s) ==
    CASE s = "A" -> PkgA [] s = "B" -> PkgB [] s = "C" -> PkgC
      [] s = "D" -> PkgD [] s = "E" -> PkgE [] s = "F" -> PkgF
      [] s = "N" -> PkgN [] s = "X" -> PkgX

\* The (source path, slide index) pairs a caller may pass to add_slide
RequestChoices ==
    { <<"A", 0 - 1>>, <<"A", 0>>, <<"A", 1>>, <<"A", 2>>, <<"A", 3>>,
      <<"B", 1>>, <<"C", 1>>, <<"C", 2>>, <<"D", 1>>, <<"E", 1>>, <<"F", 1>>,
      <<"N", 1>>, <<"X", 1>> }


\* ------------------------------------------------------------ part import
\* The files under extracted_sources[source_id], the tree zf.extractall wrote
Extracted(self, s) ==
    IF s \in DOMAIN self.sources_dir THEN self.sources_dir[s].files ELSE <<>>

\* next_ids as __init__ sets it
InitNextIds ==
    [k \in {"slide", "slideLayout", "slideMaster", "theme", "media",
            "notesSlide", "notesMaster", "unknown"} |-> 1]

\* the last <Override> of a [Content_Types].xml that names part n
LastOverride(overrides, n) ==
    CHOOSE k \in DOMAIN overrides :
        /\ overrides[k].PartName = n
        /\ \A j \in DOMAIN overrides : overrides[j].PartName = n => j <= k

\* _load_content_types: the Default and Override entries of the
\* [Content_Types].xml ct as two dicts
LoadContentTypes(ct) ==
    [defaults |-> ct.defaults,
     overrides |-> [n \in {ct.overrides[k].PartName : k \in DOMAIN ct.overrides} |->
                        ct.overrides[LastOverride(ct.overrides, n)].ContentType]]

\* _get_source_content_type, lines 328-329: self.source_content_types with
\* the entry of the source loaded
WithContentTypes(self, s) ==
    IF s \in DOMAIN self.source_content_types THEN self
    ELSE [self EXCEPT !.source_content_types =
             (s :> LoadContentTypes(self.sources_dir[s].ct)) @@ @]

\* _get_source_content_type, lines 331-348; "" stands for None.  The
\* candidates "/ppt/<part_path>" and "/<part_path>" are part names; the
\* third, the bare part_path, has no leading "/" and matches no part name of
\* a fixture.
SourceContentType(types, part_path) ==
        IF InPpt(part_path) \in DOMAIN types.overrides
        THEN types.overrides[InPpt(part_path)]
        ELSE IF part_path \in DOMAIN types.overrides
        THEN types.overrides[part_path]
        ELSE IF Suffix(part_path) \in DOMAIN types.defaults
        THEN types.defaults[Suffix(part_path)]
        ELSE ""

\* The words _get_relationship_target_type looks for that occur in the Type
\* URI ".../relationships/<type>"
TypeWords(type) ==
    CASE type = "slideLayout" -> {"slideLayout", "slide"}
      [] type = "slideMaster" -> {"slideMaster", "slide"}
      [] type = "slide" -> {"slide"}
      [] type = "theme" -> {"theme"}
      [] type = "image" -> {"image"}
      [] type = "video" -> {"video"}
      [] type = "audio" -> {"audio"}
      [] type = "media" -> {"media"}
      [] OTHER -> {}

MediaSuffixes ==
    {"jpg", "jpeg", "png", "gif", "bmp", "svg", "tiff", "ico",
     "mp4", "avi", "mov", "wmv", "m4v", "mp3", "wav", "wma", "m4a"}

\* _get_relationship_target_type
TargetType(type, target) ==
    LET w == TypeWords(type)
    IN  IF "slideLayout" \in w THEN "slideLayouts"
        ELSE IF "slideMaster" \in w THEN "slideMasters"
        ELSE IF "theme" \in w THEN "theme"
        ELSE IF w \cap {"image", "video", "audio", "media"} # {} THEN "media"
        ELSE IF "slide" \in w THEN "slides"
        ELSE IF target.ext \in MediaSuffixes THEN "media"
        ELSE "unknown"

\* part_type.rstrip('s')
Prefix(part_type) ==
    CASE part_type = "slides" -> "slide"
      [] part_type = "slideLayouts" -> "slideLayout"
      [] part_type = "slideMasters" -> "slideMaster"
      [] part_type = "theme" -> "theme"

\* The name _import_part allocates and the counter it consumes
NewName(next_ids, part_path, part_type) ==
    IF part_type = "media"
    THEN [path |-> [dir |-> <<"media">>, stem |-> "image", num |-> next_ids["media"],
                    tag |-> 0, ext |-> part_path.ext, rels |-> FALSE],
          next_ids |-> [next_ids EXCEPT !["media"] = @ + 1]]
    ELSE IF part_type = "unknown"
    THEN [path |-> [dir |-> <<"other">>, stem |-> part_path.stem, num |-> part_path.num,
                    tag |-> next_ids["unknown"], ext |-> part_path.ext, rels |-> FALSE],
          next_ids |-> [next_ids EXCEPT !["unknown"] = @ + 1]]
    ELSE [path |-> [dir |-> <<part_type>>, stem |-> Prefix(part_type),
                    num |-> next_ids[Prefix(part_type)],
                    tag |-> 0, ext |-> part_path.ext, rels |-> FALSE],
          next_ids |-> [next_ids EXCEPT ![Prefix(part_type)] = @ + 1]]

\* dict assignment d[k] = v on a dict kept in insertion order
DictSet(d, k, v) ==
    IF \E i \in DOMAIN d : d[i].PartName = k
    THEN [i \in DOMAIN d |-> IF d[i].PartName = k THEN Override(k, v) ELSE d[i]]
    ELSE Append(d, Override(k, v))

\* shutil.copy(source_full_path, dest_full_path), recorded in copy_log
CopyFile(self, s, part_path, new_part_path) ==
    [self EXCEPT
        !.work_dir = (InPpt(new_part_path) :> Extracted(self, s)[InPpt(part_path)]) @@ @,
        !.copy_log = Append(@, [src |-> s, orig |-> part_path, new |-> new_part_path,
                                fresh |-> InPpt(new_part_path) \notin DOMAIN self.work_dir])]

\* _import_part when the content type of the new part is not recorded
\* (lines 420-422 left out)
CopyPart_NoContentType(self, s, part_path, alloc) ==
    [CopyFile(self, s, part_path, alloc.path) EXCEPT
        !.next_ids = alloc.next_ids,
        !.imported_parts = (<<s, part_path>> :> alloc.path) @@ @]

\* _import_part when the cache entry is not written before the
\* relationships of the part are followed (line 418 left out)
CopyPart_NoCacheEntry(self, s, part_path, alloc) ==
    [WithContentTypes(CopyFile(self, s, part_path, alloc.path), s) EXCEPT
        !.next_ids = alloc.next_ids,
        !.imported_content_types =
            LET ct == SourceContentType(
                          WithContentTypes(self, s).source_content_types[s], part_path)
            IN  IF ct = "" THEN @ ELSE DictSet(@, InPpt(alloc.path), ct)]

\* _import_part, lines 401-422: the counter consumed, the copy, the cache
\* entry and the content type recorded for the new part
CopyPart(self, s, part_path, alloc) ==
    [WithContentTypes(CopyFile(self, s, part_path, alloc.path), s) EXCEPT
        !.next_ids = alloc.next_ids,
        !.imported_parts = (<<s, part_path>> :> alloc.path) @@ @,
        !.imported_content_types =
            IF SourceContentType(WithContentTypes(self, s).source_content_types[s],
                                 part_path) # ""
            THEN DictSet(@, InPpt(alloc.path),
                         SourceContentType(WithContentTypes(self, s).source_content_types[s],
                                           part_path))
            ELSE @]

\* _import_part and _process_relationships call each other; the calls in
\* progress are kept as a stack of frames, one per _process_relationships
\* that is running: [old, new, rels, k] is the call for old_part_path and
\* new_part_path, rels its parsed .rels with the targets rewritten so far and
\* k the entry its for loop stands at.  A run is [self, s, stack, ret, done]:
\* the merger's fields, the source, the frames, and the value the outermost
\* _import_part returned.

\* _import_part returns v and the caller keeps the old relative offset: the
\* leading ".." of the old Target are put before the new path, in place of
\* os.path.relpath (lines 496-500)
ReturnPart_KeepsOffset(run, v) ==
    IF run.stack = <<>> THEN [run EXCEPT !.ret = v, !.done = TRUE]
    ELSE LET top == Len(run.stack)
             f == run.stack[top]
         IN  [run EXCEPT !.stack[top].rels[f.k].Target =
                             [AsTarget(v) EXCEPT !.up = f.rels[f.k].Target.up],
                         !.stack[top].k = f.k + 1]

\* _import_part returns v to its caller: the loop of the calling
\* _process_relationships (lines 494-500) sets the Target and moves on, or
\* the outermost call is over
ReturnPart(run, v) ==
    IF run.stack = <<>> THEN [run EXCEPT !.ret = v, !.done = TRUE]
    ELSE LET top == Len(run.stack)
             f == run.stack[top]
         IN  [run EXCEPT !.stack[top].rels[f.k].Target = RelPath(v, f.new.dir),
                         !.stack[top].k = f.k + 1]

\* _import_part when the number is taken after the test for the bytes of
\* the part (lines 387-403 moved below line 412): a failed import uses none
EnterPart_NumberAfterTest(run, part_path, part_type) ==
    LET self == run.self
        s == run.s
        cache_key == <<s, part_path>>
        alloc == NewName(self.next_ids, part_path, part_type)
        old_rels_path == RelsOf(InPpt(part_path))
    IN  IF cache_key \in DOMAIN self.imported_parts
        THEN ReturnPart(run, self.imported_parts[cache_key])
        ELSE IF InPpt(part_path) \notin DOMAIN Extracted(self, s)
        THEN ReturnPart(run, part_path)
        ELSE IF part_path.ext = "xml" /\ old_rels_path \in DOMAIN Extracted(self, s)
        THEN [run EXCEPT !.self = CopyPart(self, s, part_path, alloc),
                         !.stack = Append(@, [old |-> part_path, new |-> alloc.path,
                                              rels |-> Extracted(self, s)[old_rels_path].rels,
                                              k |-> 1])]
        ELSE ReturnPart([run EXCEPT !.self = CopyPart(self, s, part_path, alloc)], alloc.path)

\* _import_part when it returns the new path of an XML part without a call
\* of _process_relationships (lines 424-425 left out)
EnterPart_NoRelationships(run, part_path, part_type) ==
    LET self == run.self
        s == run.s
        cache_key == <<s, part_path>>
        alloc == NewName(self.next_ids, part_path, part_type)
    IN  IF cache_key \in DOMAIN self.imported_parts
        THEN ReturnPart(run, self.imported_parts[cache_key])
        ELSE IF InPpt(part_path) \notin DOMAIN Extracted(self, s)
        THEN ReturnPart([run EXCEPT !.self.next_ids = alloc.next_ids], part_path)
        ELSE ReturnPart([run EXCEPT !.self = CopyPart(self, s, part_path, alloc)], alloc.path)

\* _import_part when the failed test for the bytes of the part returns the
\* name it allocated (return new_part_path for return part_path in line 412)
EnterPart_MissingReturnsNewName(run, part_path, part_type) ==
    LET self == run.self
        s == run.s
        cache_key == <<s, part_path>>
        alloc == NewName(self.next_ids, part_path, part_type)
        old_rels_path == RelsOf(InPpt(part_path))
    IN  IF cache_key \in DOMAIN self.imported_parts
        THEN ReturnPart(run, self.imported_parts[cache_key])
        ELSE IF InPpt(part_path) \notin DOMAIN Extracted(self, s)
        THEN ReturnPart([run EXCEPT !.self.next_ids = alloc.next_ids], alloc.path)
        ELSE IF part_path.ext = "xml" /\ old_rels_path \in DOMAIN Extracted(self, s)
        THEN [run EXCEPT !.self = CopyPart(self, s, part_path, alloc),
                         !.stack = Append(@, [old |-> part_path, new |-> alloc.path,
                                              rels |-> Extracted(self, s)[old_rels_path].rels,
                                              k |-> 1])]
        ELSE ReturnPart([run EXCEPT !.self = CopyPart(self, s, part_path, alloc)], alloc.path)

\* _import_part, lines 377-425: up to its return, or up to its call of
\* _process_relationships for a part that has a .rels
EnterPart(run, part_path, part_type) ==
    LET self == run.self
        s == run.s
        cache_key == <<s, part_path>>
        alloc == NewName(self.next_ids, part_path, part_type)
        old_rels_path == RelsOf(InPpt(part_path))
    IN  IF cache_key \in DOMAIN self.imported_parts
        THEN ReturnPart(run, self.imported_parts[cache_key])
        ELSE IF InPpt(part_path) \notin DOMAIN Extracted(self, s)
        THEN ReturnPart([run EXCEPT !.self.next_ids = alloc.next_ids], part_path)
        ELSE IF part_path.ext = "xml" /\ old_rels_path \in DOMAIN Extracted(self, s)
        THEN [run EXCEPT !.self = CopyPart(self, s, part_path, alloc),
                         !.stack = Append(@, [old |-> part_path, new |-> alloc.path,
                                              rels |-> Extracted(self, s)[old_rels_path].rels,
                                              k |-> 1])]
        ELSE ReturnPart([run EXCEPT !.self = CopyPart(self, s, part_path, alloc)], alloc.path)

\* _process_relationships when a target outside ppt/ ends the loop (break
\* for continue in line 492): the relationships after it are not followed
StepRelationships_StopsAtOutside(run) ==
    LET top == Len(run.stack)
        f == run.stack[top]
        rel == f.rels[f.k]
        full == ResolveInSource(f.old.dir, rel.Target)
    IN  IF f.k > Len(f.rels)
        THEN ReturnPart(
                [run EXCEPT !.stack = DropLast(@, 1),
                            !.self.work_dir =
                                (RelsOf(InPpt(f.new)) :>
                                    [src |-> run.s, orig |-> RelsOf(InPpt(f.old)),
                                     rels |-> f.rels]) @@ @],
                f.new)
        ELSE IF full.escaped \/ ~UnderPpt(full.path)
        THEN [run EXCEPT !.stack[top].k = Len(f.rels) + 1]
        ELSE EnterPart(run, FromPpt(full.path), TargetType(rel.Type, rel.Target))

\* _process_relationships, the innermost call in progress: one turn of its
\* loop (lines 472-500), or after the loop the write of the new .rels
\* (lines 502-507) and the return of its _import_part (line 427)
StepRelationships(run) ==
    LET top == Len(run.stack)
        f == run.stack[top]
        rel == f.rels[f.k]
        full == ResolveInSource(f.old.dir, rel.Target)
    IN  IF f.k > Len(f.rels)
        THEN ReturnPart(
                [run EXCEPT !.stack = DropLast(@, 1),
                            !.self.work_dir =
                                (RelsOf(InPpt(f.new)) :>
                                    [src |-> run.s, orig |-> RelsOf(InPpt(f.old)),
                                     rels |-> f.rels]) @@ @],
                f.new)
        ELSE IF full.escaped \/ ~UnderPpt(full.path)
        THEN [run EXCEPT !.stack[top].k = f.k + 1]
        ELSE EnterPart(run, FromPpt(full.path), TargetType(rel.Type, rel.Target))

\* The calls run until the outermost _import_part has returned.  (The set
\* binds next to the value of the step, so that the step is computed once.)
RECURSIVE RunImport(_)
RunImport(run) ==
    IF run.done THEN run
    ELSE CHOOSE out \in {RunImport(next) : next \in {StepRelationships(run)}} : TRUE

\* _import_part called from _process_slides when the cache is not consulted
\* for the part asked for (lines 380-382 passed over on the outermost call)
ImportPart_Uncached(self, s, part_path, part_type) ==
    LET forgot == [self EXCEPT !.imported_parts =
                      [key \in DOMAIN @ \ {<<s, part_path>>} |-> @[key]]]
        run == RunImport(EnterPart([self |-> forgot, s |-> s, stack |-> <<>>,
                                    ret |-> part_path, done |-> FALSE],
                                   part_path, part_type))
    IN  [self |-> run.self, ret |-> run.ret]

\* _import_part called from _process_slides: the merger after the call and
\* the returned path
ImportPart(self, s, part_path, part_type) ==
    LET run == RunImport(EnterPart([self |-> self, s |-> s, stack |-> <<>>,
                                    ret |-> part_path, done |-> FALSE],
                                   part_path, part_type))
    IN  [self |-> run.self, ret |-> run.ret]

\* --------------------------------------------------------------- skeleton
\* The next_ids key a file of the skeleton advances in _scan_base_content
\* ("" for none): the file.startswith chain and the regex <prefix>(\d+)\.
ScanKey(q) ==
    IF q.num = 0 \/ q.tag # 0 THEN ""
    ELSE IF q.stem \in {"slideLayout", "slideMaster", "slide", "theme"} THEN q.stem
    ELSE IF q.stem = "image" THEN "media"
    ELSE ""

\* _scan_base_content: next_ids and imported_parts after the walk of <work>/ppt
ScanBaseContent(self, base_source_id) ==
    LET files == {q \in DOMAIN self.work_dir : UnderPpt(q)}
        top(k) == LET nums == {q.num : q \in {f \in files : ScanKey(f) = k}}
                  IN  IF nums = {} THEN 0 ELSE CHOOSE n \in nums : \A m \in nums : m <= n
    IN  [self EXCEPT
            !.next_ids = [k \in DOMAIN @ |-> IF top(k) >= @[k] THEN top(k) + 1 ELSE @[k]],
            !.imported_parts =
                [key \in {<<base_source_id, FromPpt(q)>> : q \in files} |-> key[2]] @@ @]

\* _prepare_base: shutil.copytree(base_path, work_dir), then the scan
PrepareBaseOf(self, base_source_id) ==
    ScanBaseContent(
        [self EXCEPT !.work_dir = Extracted(self, base_source_id) @@ @,
                     !.work_pres = self.sources_dir[base_source_id].pres,
                     !.work_ct = self.sources_dir[base_source_id].ct],
        base_source_id)

\* -------------------------------------------------------- _process_slides
PresRelsPath == RelsOf(InPpt(Presentation))

SeqFilter(seq, Keep(_)) ==
    LET F[i \in 0..Len(seq)] ==
            IF i = 0 THEN <<>>
            ELSE IF Keep(seq[i]) THEN Append(F[i - 1], seq[i]) ELSE F[i - 1]
    IN  F[Len(seq)]

IsSlideRel(rel) == rel.Type = "slide"
NotSlideRel(rel) == ~IsSlideRel(rel)

\* next_rId taken from the number of relationships left instead of the
\* largest Id among them (len(existing_rIds) + 1 for max(existing_rIds) + 1)
FirstRId_CountsRels(rels) ==
    IF rels # <<>> THEN Len(rels) + 1 ELSE 1000

\* next_rId from the relationships left in presentation.xml.rels
FirstRId(rels) ==
    LET ids == {rels[k].Id : k \in DOMAIN rels}
    IN  IF ids # {} THEN (CHOOSE n \in ids : \A m \in ids : m <= n) + 1 ELSE 1000

\* existing_masters: the Target of every relationship a <sldMasterId> names
ExistingMasters(master_lst, rels) ==
    {rels[k].Target : k \in {j \in DOMAIN rels :
                                \E c \in DOMAIN master_lst : master_lst[c].rid = rels[j].Id}}

\* next_master_id_attr: 2147483648, or one more than the largest id listed
FirstMasterId(master_lst) ==
    LET ids == {master_lst[c].id : c \in DOMAIN master_lst}
    IN  IF ids # {} THEN IdSucc(IdMax(ids)) ELSE Id(1, 0)

\* _process_slides when the slide list, the extension list and the
\* custom-show list of the skeleton are kept (lines 148-161 left out)
BeginProcessSlides_KeepsLists(self) ==
    LET pres_rels_root == SeqFilter(self.work_dir[PresRelsPath].rels, NotSlideRel)
    IN  [self EXCEPT
            !.pres_root = self.work_pres,
            !.pres_rels_root = pres_rels_root,
            !.next_rId = FirstRId(pres_rels_root),
            !.next_slide_id_attr = Id(0, 256),
            !.existing_masters = ExistingMasters(self.work_pres.sldMasterIdLst, pres_rels_root),
            !.next_master_id_attr = FirstMasterId(self.work_pres.sldMasterIdLst)]

\* _process_slides, lines 144-194: the parsed documents and the counters
\* before the loop over self.slides
BeginProcessSlides(self) ==
    LET pres_rels_root == SeqFilter(self.work_dir[PresRelsPath].rels, NotSlideRel)
    IN  [self EXCEPT
            !.pres_root = [self.work_pres EXCEPT !.sldIdLst = <<>>,
                                                 !.extLst = FALSE,
                                                 !.custShowLst = FALSE],
            !.pres_rels_root = pres_rels_root,
            !.next_rId = FirstRId(pres_rels_root),
            !.next_slide_id_attr = Id(0, 256),
            !.existing_masters = ExistingMasters(self.work_pres.sldMasterIdLst, pres_rels_root),
            !.next_master_id_attr = FirstMasterId(self.work_pres.sldMasterIdLst)]

\* _get_source_slide_part without the test slide_index < 1 of line 312:
\* slides[slide_index - 1] then counts a non-positive index from the end
GetSourceSlidePart_NoLowerBound(self, s, slide_index) ==
    LET lst == self.sources_dir[s].pres.sldIdLst
        rels == Extracted(self, s)[PresRelsPath].rels
        none == [found |-> FALSE, target |-> Down(Presentation)]
        at == IF slide_index < 1 THEN Len(lst) + slide_index ELSE slide_index
    IN  IF InPpt(Presentation) \notin DOMAIN Extracted(self, s) THEN none
        ELSE IF slide_index > Len(lst) \/ at < 1 THEN none
        ELSE IF \E k \in DOMAIN rels : rels[k].Id = lst[at].rid
        THEN [found |-> TRUE,
              target |-> rels[CHOOSE k \in DOMAIN rels :
                                 /\ rels[k].Id = lst[at].rid
                                 /\ \A j \in DOMAIN rels :
                                       rels[j].Id = lst[at].rid => k <= j].Target]
        ELSE none

\* _get_source_slide_part: the Target of the slide_index-th <sldId> of the
\* source, or none
GetSourceSlidePart(self, s, slide_index) ==
    LET lst == self.sources_dir[s].pres.sldIdLst
        rels == Extracted(self, s)[PresRelsPath].rels
        none == [found |-> FALSE, target |-> Down(Presentation)]
    IN  IF InPpt(Presentation) \notin DOMAIN Extracted(self, s) THEN none
        ELSE IF slide_index > Len(lst) \/ slide_index < 1 THEN none
        ELSE IF \E k \in DOMAIN rels : rels[k].Id = lst[slide_index].rid
        THEN [found |-> TRUE,
              target |-> rels[CHOOSE k \in DOMAIN rels :
                                 /\ rels[k].Id = lst[slide_index].rid
                                 /\ \A j \in DOMAIN rels :
                                       rels[j].Id = lst[slide_index].rid => k <= j].Target]
        ELSE none

\* the Target of the first entry of a .rels whose Type contains word
FirstTarget(rels, word) ==
    LET hits == {k \in DOMAIN rels : word \in TypeWords(rels[k].Type)}
    IN  IF hits = {} THEN [found |-> FALSE, target |-> Down(Presentation)]
        ELSE [found |-> TRUE,
              target |-> rels[CHOOSE k \in hits : \A j \in hits : k <= j].Target]

\* _ensure_master_registered, lines 279-293: a new relationship and a new
\* <sldMasterId> for master_rel_ppt
RegisterMaster(self, master_rel_ppt) ==
    [self EXCEPT
        !.next_rId = @ + 1,
        !.pres_rels_root = Append(@, Rel(self.next_rId, "slideMaster", master_rel_ppt)),
        !.pres_root.sldMasterIdLst =
            Append(@, [id |-> self.next_master_id_attr, rid |-> self.next_rId]),
        !.next_master_id_attr = IdSucc(@),
        !.existing_masters = @ \cup {master_rel_ppt}]

\* _ensure_master_registered when a master is looked up and never added
\* (lines 279-293 left out): only the masters of the skeleton are listed
EnsureMasterRegistered_SkeletonOnly(self, s, slide_part_path) == self

\* _ensure_master_registered; slide_part_path is the Target string
\* _get_source_slide_part returned
EnsureMasterRegistered(self, s, slide_part_path) ==
    IF slide_part_path.abs \/ <<s, AsPartPath(slide_part_path)>> \notin DOMAIN self.imported_parts
    THEN self
    ELSE
    LET new_slide_path == self.imported_parts[<<s, AsPartPath(slide_part_path)>>]
        slide_rels_path == RelsOf(InPpt(new_slide_path))
    IN  IF slide_rels_path \notin DOMAIN self.work_dir THEN self
        ELSE
        LET layout_path == FirstTarget(self.work_dir[slide_rels_path].rels, "slideLayout")
            layout_full_path == ResolveInWork(new_slide_path.dir, layout_path.target)
        IN  IF ~layout_path.found \/ layout_full_path.escaped \/ ~UnderPpt(layout_full_path.path)
            THEN self
            ELSE
            LET layout_rel_ppt == FromPpt(layout_full_path.path)
                layout_rels_path == RelsOf(InPpt(layout_rel_ppt))
            IN  IF layout_rels_path \notin DOMAIN self.work_dir THEN self
                ELSE
                LET master_path == FirstTarget(self.work_dir[layout_rels_path].rels, "slideMaster")
                    master_full_path == ResolveInWork(layout_rel_ppt.dir, master_path.target)
                IN  IF ~master_path.found \/ master_full_path.escaped
                       \/ ~UnderPpt(master_full_path.path)
                    THEN self
                    ELSE
                    LET master_rel_ppt == AsTarget(FromPpt(master_full_path.path))
                    IN  IF master_rel_ppt \in self.existing_masters THEN self
                        ELSE RegisterMaster(self, master_rel_ppt)

\* _process_slides, lines 207-218: the relationship and the <sldId> appended
\* for an imported slide
AppendSlide(self, new_slide_part) ==
    [self EXCEPT
        !.next_rId = @ + 1,
        !.pres_rels_root = Append(@, Rel(self.next_rId, "slide", AsTarget(new_slide_part))),
        !.pres_root.sldIdLst =
            Append(@, [id |-> self.next_slide_id_attr, rid |-> self.next_rId]),
        !.next_slide_id_attr = IdSucc(@)]

\* One turn of the loop of _process_slides, lines 196-218
ProcessRequest(self, s, slide_index) ==
    LET slide_part_path == GetSourceSlidePart(self, s, slide_index)
    IN  IF ~slide_part_path.found THEN self
        ELSE
        LET imp == ImportPart(self, s, AsPartPath(slide_part_path.target), "slides")
            reg == EnsureMasterRegistered(imp.self, s, slide_part_path.target)
        IN  AppendSlide(reg, imp.ret)

\* pres_tree.write and pres_rels_tree.write, lines 220-221
PersistPresentation(self) ==
    [self EXCEPT
        !.work_pres = self.pres_root,
        !.work_dir = [@ EXCEPT ![PresRelsPath].rels = self.pres_rels_root]]

\* ---------------------------------------------------- _update_content_types
PresentationContentType == "presentation.main+xml"

RECURSIVE AddOverrides(_, _, _)
AddOverrides(overrides, imported, k) ==
    IF k > Len(imported) THEN overrides
    ELSE IF \E i \in DOMAIN overrides : overrides[i].PartName = imported[k].PartName
    THEN AddOverrides(overrides, imported, k + 1)
    ELSE AddOverrides(Append(overrides, imported[k]), imported, k + 1)

\* _update_content_types without its lines 526-530: no Override is added
\* for the presentation
UpdateContentTypesOf_NoPresentation(self) ==
    [self EXCEPT !.work_ct.overrides =
        AddOverrides(self.work_ct.overrides, self.imported_content_types, 1)]

\* _update_content_types: the collected content types and the Override of
\* the presentation appended to <work>/[Content_Types].xml
UpdateContentTypesOf(self) ==
    LET added == AddOverrides(self.work_ct.overrides, self.imported_content_types, 1)
    IN  [self EXCEPT !.work_ct.overrides =
            IF \E i \in DOMAIN added : added[i].PartName = InPpt(Presentation)
            THEN added
            ELSE Append(added, Override(InPpt(Presentation), PresentationContentType))]

\* ------------------------------------------------------------------ state
VARIABLES
    pc,                     \* where merge() stands
    idx,                    \* position of the running for loop
    error,                  \* the exception merge() is propagating, or "none"
    slides,                 \* self.slides: <<source_id, slide_index>> in call order
    source_map,             \* self.source_map: its keys in insertion order
    extracted_sources,      \* self.extracted_sources: its keys
    imported_parts,         \* self.imported_parts: <<source_id, part_path>> -> new path
    imported_content_types, \* self.imported_content_types, in insertion order
    next_ids,               \* self.next_ids
    next_rId, next_slide_id_attr, next_master_id_attr, existing_masters,
    pres_root,              \* presentation.xml as parsed by _process_slides
    pres_rels_root,         \* presentation.xml.rels as parsed by _process_slides
    temp_dir,               \* whether self.temp_dir exists on disk
    source_content_types,   \* self.source_content_types: source_id -> its two dicts
    sources_dir,            \* the extractions under self.sources_dir: source_id -> package
    work_dir,               \* the files under self.work_dir: path -> file
    work_pres,              \* <work>/ppt/presentation.xml on disk
    work_ct,                \* <work>/[Content_Types].xml on disk
    output,                 \* the file at self.output_path
    copy_log                \* history: every shutil.copy of _import_part, in order

VARIABLES
    calls,                  \* how many times merge() was called on the merger
    sessions,               \* mergers that run side by side: session -> merger
    tmp                     \* the temp directories tempfile.mkdtemp made: name -> tree

VARIABLES
    deck,                   \* a call of merge_slides_to_deck: its locals and ppts_dir
    flow                    \* a run of the slide selection workflow

merger == <<slides, source_map, extracted_sources, imported_parts, imported_content_types,
            next_ids, next_rId, next_slide_id_attr, next_master_id_attr, existing_masters,
            pres_root, pres_rels_root, work_dir, work_pres, work_ct, copy_log,
            source_content_types>>
vars == <<pc, idx, error, merger, temp_dir, sources_dir, output>>

\* The fields of the merger the steps of merge() read and write, as one record
Self ==
    [imported_parts |-> imported_parts, imported_content_types |-> imported_content_types,
     next_ids |-> next_ids, next_rId |-> next_rId,
     next_slide_id_attr |-> next_slide_id_attr, next_master_id_attr |-> next_master_id_attr,
     existing_masters |-> existing_masters, pres_root |-> pres_root,
     pres_rels_root |-> pres_rels_root, work_dir |-> work_dir, work_pres |-> work_pres,
     work_ct |-> work_ct, copy_log |-> copy_log,
     source_content_types |-> source_content_types, sources_dir |-> sources_dir]

Store(self) ==
    /\ imported_parts' = self.imported_parts
    /\ imported_content_types' = self.imported_content_types
    /\ next_ids' = self.next_ids
    /\ next_rId' = self.next_rId
    /\ next_slide_id_attr' = self.next_slide_id_attr
    /\ next_master_id_attr' = self.next_master_id_attr
    /\ existing_masters' = self.existing_masters
    /\ pres_root' = self.pres_root
    /\ pres_rels_root' = self.pres_rels_root
    /\ work_dir' = self.work_dir
    /\ work_pres' = self.work_pres
    /\ work_ct' = self.work_ct
    /\ copy_log' = self.copy_log
    /\ source_content_types' = self.source_content_types

NoFile == [exists |-> FALSE, complete |-> FALSE, files |-> <<>>, pres |-> NoPres,
           ct |-> [defaults |-> <<>>, overrides |-> <<>>]]

\* merge_slides_to_deck before it is called: ppts_dir holds no file yet
NoDeck == [pc |-> "idle", slide_specs |-> <<>>, k |-> 0, ppts_dir |-> {},
           partial |-> {}, fates |-> <<>>, error |-> "none"]

\* SlideSelectionState as run_slide_selection builds it: the lists are kept
\* as what the control flow reads of them (whether current_candidates and
\* current_selection hold something, how long conversation_history is, who
\* set selected_slide)
InitialState ==
    [phase |-> "search", current_attempt |-> 0, current_candidates |-> FALSE,
     current_selection |-> FALSE, conversation_history |-> 0,
     selected_slide |-> "none"]

\* the slide selection workflow before it is run: to is the executor the
\* message in flight goes to, iteration the supersteps done, outputs the
\* states handed to yield_output
NoFlow == [pc |-> "idle", state |-> InitialState, to |-> "none", iteration |-> 0,
           outputs |-> 0, judge_ran |-> FALSE]

\* PPTXMerger.__init__
Init ==
    /\ pc = "created" /\ idx = 0 /\ error = "none"
    /\ slides = <<>> /\ source_map = <<>> /\ extracted_sources = {}
    /\ imported_parts = <<>> /\ imported_content_types = <<>>
    /\ next_ids = InitNextIds
    /\ next_rId = 0 /\ next_slide_id_attr = Id(0, 0) /\ next_master_id_attr = Id(0, 0)
    /\ existing_masters = {}
    /\ pres_root = NoPres /\ pres_rels_root = <<>>
    /\ temp_dir = TRUE /\ sources_dir = <<>> /\ source_content_types = <<>>
    /\ work_dir = <<>> /\ work_pres = NoPres
    /\ work_ct = [defaults |-> <<>>, overrides |-> <<>>]
    /\ output = NoFile
    /\ copy_log = <<>>
    /\ calls = 0
    /\ sessions = <<>> /\ tmp = <<>>
    /\ deck = NoDeck
    /\ flow = NoFlow

\* ---------------------------------------------------------------- actions
InSeq(x, seq) == \E k \in DOMAIN seq : seq[k] = x

\* add_slide(source_path, slide_index)
AddSlide ==
    /\ pc = "created"
    /\ Len(slides) < MaxRequests
    /\ \E r \in RequestChoices :
          /\ slides' = Append(slides, r)
          /\ source_map' = IF InSeq(r[1], source_map) THEN source_map
                           ELSE Append(source_map, r[1])
    /\ UNCHANGED <<pc, idx, error, extracted_sources, imported_parts, imported_content_types,
                   next_ids, next_rId, next_slide_id_attr, next_master_id_attr,
                   existing_masters, pres_root, pres_rels_root, work_dir, work_pres,
                   work_ct, copy_log, source_content_types, temp_dir, sources_dir, output>>
    /\ UNCHANGED <<calls, sessions, tmp, deck, flow>>

\* merge() without the test of lines 79-80
MergeBegin_NoEmptyCheck ==
    /\ pc = "created"
    /\ error' = error /\ pc' = "extract" /\ idx' = 1
    /\ UNCHANGED <<merger, temp_dir, sources_dir, output>>
    /\ calls' = calls + 1 /\ UNCHANGED <<sessions, tmp, deck, flow>>

\* merge(), lines 78-82: the check for an empty request list
MergeBegin ==
    /\ pc = "created"
    /\ IF slides = <<>>
       THEN error' = "ValueError" /\ pc' = "cleanup" /\ idx' = idx
       ELSE error' = error /\ pc' = "extract" /\ idx' = 1
    /\ UNCHANGED <<merger, temp_dir, sources_dir, output>>
    /\ calls' = calls + 1 /\ UNCHANGED <<sessions, tmp, deck, flow>>

\* _extract_sources when the failure to open a source is kept for later and
\* the loop goes on with an empty extraction
ExtractSource_RaisesLate ==
    /\ pc = "extract"
    /\ LET source_id == source_map[idx]
       IN  /\ extracted_sources' = extracted_sources \cup {source_id}
           /\ sources_dir' = (source_id :> [files |-> Pkg(source_id).files,
                                            pres |-> Pkg(source_id).pres,
                                            ct |-> Pkg(source_id).ct]) @@ sources_dir
           /\ error' = IF Pkg(source_id).zip_ok THEN error ELSE "BadZipFile"
           /\ temp_dir' = TRUE
           /\ IF idx < Len(source_map)
              THEN idx' = idx + 1 /\ pc' = pc
              ELSE idx' = 0 /\ pc' = "prepare"
    /\ UNCHANGED <<slides, source_map, imported_parts, imported_content_types,
                   next_ids, next_rId, next_slide_id_attr, next_master_id_attr,
                   existing_masters, pres_root, pres_rels_root, work_dir, work_pres,
                   work_ct, copy_log, source_content_types, output>>
    /\ UNCHANGED <<calls, sessions, tmp, deck, flow>>

\* _extract_sources: one turn of its loop over source_map
ExtractSource ==
    /\ pc = "extract"
    /\ LET source_id == source_map[idx]
       IN  /\ extracted_sources' = extracted_sources \cup {source_id}
           /\ IF Pkg(source_id).zip_ok
              THEN /\ sources_dir' = (source_id :> [files |-> Pkg(source_id).files,
                                                     pres |-> Pkg(source_id).pres,
                                                     ct |-> Pkg(source_id).ct]) @@ sources_dir
                   /\ temp_dir' = TRUE
                   /\ error' = error
                   /\ IF idx < Len(source_map)
                      THEN idx' = idx + 1 /\ pc' = pc
                      ELSE idx' = 0 /\ pc' = "prepare"
              ELSE /\ sources_dir' = sources_dir
                   /\ temp_dir' = temp_dir
                   /\ error' = "BadZipFile"
                   /\ idx' = idx /\ pc' = "cleanup"
    /\ UNCHANGED <<slides, source_map, imported_parts, imported_content_types,
                   next_ids, next_rId, next_slide_id_attr, next_master_id_attr,
                   existing_masters, pres_root, pres_rels_root, work_dir, work_pres,
                   work_ct, copy_log, source_content_types, output>>
    /\ UNCHANGED <<calls, sessions, tmp, deck, flow>>

\* _prepare_base(self.slides[0][0])
PrepareBase ==
    /\ pc = "prepare"
    /\ Store(PrepareBaseOf(Self, slides[1][1]))
    /\ pc' = "begin"
    /\ UNCHANGED <<idx, error, slides, source_map, extracted_sources,
                   temp_dir, sources_dir, output>>
    /\ UNCHANGED <<calls, sessions, tmp, deck, flow>>

\* _process_slides up to its loop; ET.parse raises when the skeleton has no
\* presentation.xml or no presentation.xml.rels
BeginSlides ==
    /\ pc = "begin"
    /\ IF InPpt(Presentation) \in DOMAIN work_dir /\ PresRelsPath \in DOMAIN work_dir
       THEN Store(BeginProcessSlides(Self)) /\ idx' = 1 /\ pc' = "slides" /\ error' = error
       ELSE Store(Self) /\ idx' = idx /\ pc' = "cleanup" /\ error' = "FileNotFoundError"
    /\ UNCHANGED <<slides, source_map, extracted_sources, temp_dir, sources_dir, output>>
    /\ UNCHANGED <<calls, sessions, tmp, deck, flow>>

\* one turn of the loop over self.slides
ProcessSlide ==
    /\ pc = "slides"
    /\ idx <= Len(slides)
    /\ Store(ProcessRequest(Self, slides[idx][1], slides[idx][2]))
    /\ idx' = idx + 1
    /\ UNCHANGED <<pc, error, slides, source_map, extracted_sources,
                   temp_dir, sources_dir, output>>
    /\ UNCHANGED <<calls, sessions, tmp, deck, flow>>

\* the two tree.write calls inside the loop: the documents are written
\* after any turn, and the requests left get no turn
Persist_InsideLoop ==
    /\ pc = "slides"
    /\ idx > 1
    /\ Store(PersistPresentation(Self))
    /\ pc' = "content_types"
    /\ UNCHANGED <<idx, error, slides, source_map, extracted_sources,
                   temp_dir, sources_dir, output>>
    /\ UNCHANGED <<calls, sessions, tmp, deck, flow>>

\* the two tree.write calls after the loop
Persist ==
    /\ pc = "slides"
    /\ idx > Len(slides)
    /\ Store(PersistPresentation(Self))
    /\ pc' = "content_types"
    /\ UNCHANGED <<idx, error, slides, source_map, extracted_sources,
                   temp_dir, sources_dir, output>>
    /\ UNCHANGED <<calls, sessions, tmp, deck, flow>>

\* _update_content_types
UpdateContentTypes ==
    /\ pc = "content_types"
    /\ IF ContentTypesFile \in DOMAIN work_dir
       THEN Store(UpdateContentTypesOf(Self)) /\ pc' = "repackage" /\ error' = error
       ELSE Store(Self) /\ pc' = "cleanup" /\ error' = "FileNotFoundError"
    /\ UNCHANGED <<idx, slides, source_map, extracted_sources,
                   temp_dir, sources_dir, output>>
    /\ UNCHANGED <<calls, sessions, tmp, deck, flow>>

\* _repackage: every file of the work tree goes into the archive
Repackage ==
    /\ pc = "repackage"
    /\ output' = [exists |-> TRUE, complete |-> TRUE, files |-> work_dir,
                  pres |-> work_pres, ct |-> work_ct]
    /\ pc' = "cleanup"
    /\ UNCHANGED <<idx, error, merger, temp_dir, sources_dir>>
    /\ UNCHANGED <<calls, sessions, tmp, deck, flow>>

\* _repackage when the output file cannot be opened (created |-> FALSE) or a
\* write fails after it was opened
RepackageFails ==
    /\ pc = "repackage"
    /\ \E created \in BOOLEAN :
          output' = IF created THEN [NoFile EXCEPT !.exists = TRUE] ELSE output
    /\ error' = "OSError"
    /\ pc' = "cleanup"
    /\ UNCHANGED <<idx, merger, temp_dir, sources_dir>>
    /\ UNCHANGED <<calls, sessions, tmp, deck, flow>>

\* _cleanup called at the end of the try block instead of in a finally
\* clause: an exception passes it by
Cleanup_NotInFinally ==
    /\ pc = "cleanup"
    /\ temp_dir' = IF error = "none" THEN FALSE ELSE temp_dir
    /\ sources_dir' = IF error = "none" THEN <<>> ELSE sources_dir
    /\ work_dir' = IF error = "none" THEN <<>> ELSE work_dir
    /\ work_pres' = IF error = "none" THEN NoPres ELSE work_pres
    /\ work_ct' = IF error = "none" THEN [defaults |-> <<>>, overrides |-> <<>>] ELSE work_ct
    /\ pc' = IF error = "none" THEN "returned" ELSE "raised"
    /\ UNCHANGED <<idx, error, slides, source_map, extracted_sources, imported_parts,
                   imported_content_types, next_ids, next_rId, next_slide_id_attr,
                   next_master_id_attr, existing_masters, pres_root, pres_rels_root,
                   copy_log, source_content_types, output>>
    /\ UNCHANGED <<calls, sessions, tmp, deck, flow>>

\* the finally clause of merge(): _cleanup, then merge() returns or raises
Cleanup ==
    /\ pc = "cleanup"
    /\ temp_dir' = FALSE
    /\ sources_dir' = <<>>
    /\ work_dir' = <<>>
    /\ work_pres' = NoPres
    /\ work_ct' = [defaults |-> <<>>, overrides |-> <<>>]
    /\ pc' = IF error = "none" THEN "returned" ELSE "raised"
    /\ UNCHANGED <<idx, error, slides, source_map, extracted_sources, imported_parts,
                   imported_content_types, next_ids, next_rId, next_slide_id_attr,
                   next_master_id_attr, existing_masters, pres_root, pres_rels_root,
                   copy_log, source_content_types, output>>
    /\ UNCHANGED <<calls, sessions, tmp, deck, flow>>

Next ==
    \/ AddSlide \/ MergeBegin \/ ExtractSource \/ PrepareBase \/ BeginSlides
    \/ ProcessSlide \/ Persist \/ UpdateContentTypes \/ Repackage \/ RepackageFails
    \/ Cleanup

Spec == Init /\ [][Next]_vars

\* ------------------------------------------------------ merge() called again
MaxMerges == 2

\* merge() called on a merger whose merge() has returned or raised, lines
\* 78-82: the object is as the earlier call left it
MergeAgain ==
    /\ pc \in {"returned", "raised"}
    /\ calls < MaxMerges
    /\ IF slides = <<>>
       THEN error' = "ValueError" /\ pc' = "cleanup" /\ idx' = idx
       ELSE error' = "none" /\ pc' = "extract" /\ idx' = 1
    /\ calls' = calls + 1
    /\ UNCHANGED <<merger, temp_dir, sources_dir, output, sessions, tmp, deck, flow>>

NextRemerge == Next \/ MergeAgain

SpecRemerge == Init /\ [][NextRemerge]_<<vars, calls>>

\* ------------------------------------------------------------------ claims
\* What a request asks for and what a package shows, read from the packages
\* themselves and not from the run.

\* the number of slides the presentation of a source lists
SlideCount(s) ==
    IF Pkg(s).zip_ok /\ InPpt(Presentation) \in DOMAIN Pkg(s).files
    THEN Len(Pkg(s).pres.sldIdLst) ELSE 0

ValidIndex(r) == r[2] >= 1 /\ r[2] <= SlideCount(r[1])

\* the requests of the session that name a slide of their source, in order
ValidRequests == SeqFilter(slides, ValidIndex)

\* The part a Target of presentation.xml.rels designates in a package: a path
\* from the package root (the owning part lies in ppt/)
PresTargetPart(t) == ResolveInSource(<<>>, t).path

\* the relationships of a package's presentation.xml.rels with the given Id
RelsWithId(files, rid) ==
    IF PresRelsPath \in DOMAIN files
    THEN {files[PresRelsPath].rels[j] : j \in {i \in DOMAIN files[PresRelsPath].rels :
                                                   files[PresRelsPath].rels[i].Id = rid}}
    ELSE {}

\* the slide part a request with a valid index names in its source
WantedPart(r) ==
    PresTargetPart(
        (CHOOSE rel \in RelsWithId(Pkg(r[1]).files, Pkg(r[1]).pres.sldIdLst[r[2]].rid) :
            TRUE).Target)

\* entry e of the slide list or master list of a package names exactly one
\* relationship, and its target is a file of the package that holds the
\* bytes of part orig of source src
EntryShows(pkg, e, src, orig) ==
    /\ Cardinality(RelsWithId(pkg.files, e.rid)) = 1
    /\ \A rel \in RelsWithId(pkg.files, e.rid) :
          /\ PresTargetPart(rel.Target) \in DOMAIN pkg.files
          /\ pkg.files[PresTargetPart(rel.Target)].src = src
          /\ pkg.files[PresTargetPart(rel.Target)].orig = orig

\* C1: after a successful merge the output's slide list, read in document
\* order, shows the slides of the requests that name a slide of their source:
\* one entry per such request, in request order, each designating the
\* requested slide of the requested source.
C1_SlideListFollowsRequests ==
    pc = "returned" =>
        /\ Len(output.pres.sldIdLst) = Len(ValidRequests)
        /\ \A k \in DOMAIN output.pres.sldIdLst :
              EntryShows(output, output.pres.sldIdLst[k],
                         ValidRequests[k][1], WantedPart(ValidRequests[k]))

\* a turn of the loop of _process_slides for a request whose index names no
\* slide of its source imports nothing, appends nothing, raises nothing and
\* moves on to the next request
SkipsInvalidRequest ==
    (pc = "slides" /\ idx <= Len(slides) /\ ~ValidIndex(slides[idx])) =>
        /\ pc' = "slides" /\ idx' = idx + 1 /\ error' = error
        /\ work_dir' = work_dir /\ copy_log' = copy_log
        /\ imported_parts' = imported_parts
        /\ imported_content_types' = imported_content_types
        /\ next_ids' = next_ids
        /\ pres_root' = pres_root /\ pres_rels_root' = pres_rels_root
        /\ next_rId' = next_rId /\ next_slide_id_attr' = next_slide_id_attr

\* every source of the session is a presentation package
AllPresentations ==
    \A k \in DOMAIN slides :
        Pkg(slides[k][1]).zip_ok /\ InPpt(Presentation) \in DOMAIN Pkg(slides[k][1]).files

\* merge() has a next step to take: the guards of the steps of each phase
MergeCanStep ==
    \/ pc \in {"created", "prepare", "begin", "content_types", "repackage", "cleanup"}
    \/ pc = "extract" /\ idx \in DOMAIN source_map
    \/ pc = "slides" /\ idx \in 1..(Len(slides) + 1)

\* C2: a request whose slide index is 0, negative or beyond the slide count
\* of its source is skipped: its turn imports no part and adds no slide-list
\* entry; the merge goes on (with presentation packages as sources nothing but
\* the writing of the output file can fail, and merge() never stops short of
\* returning or raising), and the output written holds one slide-list entry
\* per request with a valid index, wherever the invalid ones sit.
C2_InvalidIndexSkipped ==
    /\ [][SkipsInvalidRequest]_vars
    /\ []((slides # <<>> /\ AllPresentations) => error \in {"none", "OSError"})
    /\ [](pc \in {"returned", "raised"} \/ MergeCanStep)
    /\ [](pc = "returned" =>
            /\ output.exists /\ output.complete
            /\ Len(output.pres.sldIdLst) = Len(ValidRequests))

\* C2: the merge of an invalid request first, a valid one, an invalid one
\* last has returned with one slide
C2_Witness ==
    /\ pc = "returned" /\ output.complete
    /\ Len(slides) = 3
    /\ slides[1] = <<"A", 0>> /\ slides[2] = <<"B", 1>> /\ slides[3] = <<"A", 3>>
    /\ Len(output.pres.sldIdLst) = 1
    /\ EntryShows(output, output.pres.sldIdLst[1], "B", InPpt(Slide(1)))

\* C3: merge() on a merger that holds no request raises the error for the
\* empty request list ("No slides to merge") and does nothing else: no source
\* is extracted, nothing is copied into the working tree, no part is
\* imported, and no file comes to exist at the output path.
C3_EmptyRequestRaisesFirst ==
    (slides = <<>> /\ pc # "created") =>
        /\ error = "ValueError"
        /\ pc \in {"cleanup", "raised"}
        /\ extracted_sources = {} /\ sources_dir = <<>>
        /\ work_dir = <<>> /\ copy_log = <<>> /\ imported_parts = <<>>
        /\ ~output.exists

\* C3: merge() was called without a request and has raised
C3_Witness ==
    pc = "raised" /\ slides = <<>> /\ error = "ValueError" /\ ~output.exists

\* the request the loop of _process_slides stands at was made before
RepeatedRequest ==
    /\ pc = "slides" /\ idx <= Len(slides)
    /\ \E j \in 1..(idx - 1) : slides[j] = slides[idx]

\* the turn for a request made before copies nothing, writes no file, adds no
\* cache entry and no master, and appends one slide-list entry
RepeatImportsNothing ==
    RepeatedRequest =>
        /\ copy_log' = copy_log /\ work_dir' = work_dir
        /\ imported_parts' = imported_parts
        /\ pres_root'.sldMasterIdLst = pres_root.sldMasterIdLst
        /\ Len(pres_root'.sldIdLst) =
              Len(pres_root.sldIdLst) + (IF ValidIndex(slides[idx]) THEN 1 ELSE 0)
        /\ SubSeq(pres_root'.sldIdLst, 1, Len(pres_root.sldIdLst)) = pres_root.sldIdLst

\* C4: in one session no part, identified by its source and its path in the
\* source, is copied into the working tree twice, however many requests and
\* relationships name it (a part of the skeleton source, which arrived with
\* the skeleton, is not copied by an import at all); and the turn for a
\* (source, slide) pair requested before imports no part and only appends one
\* more slide-list entry.
C4_ImportedAtMostOnce ==
    /\ [](\A i, j \in DOMAIN copy_log :
            (copy_log[i].src = copy_log[j].src /\ copy_log[i].orig = copy_log[j].orig)
            => i = j)
    /\ [](\A i \in DOMAIN copy_log : copy_log[i].src # slides[1][1])
    /\ [][RepeatImportsNothing]_vars

\* C4: slide 1 of B was requested twice after a slide of the skeleton A; the
\* merge returned with three slides and B's six parts copied once each
C4_Witness ==
    /\ pc = "returned"
    /\ slides = << <<"A", 1>>, <<"B", 1>>, <<"B", 1>> >>
    /\ Len(output.pres.sldIdLst) = 3
    /\ Len(copy_log) = 6
    /\ \E i \in DOMAIN copy_log : copy_log[i].src = "B" /\ copy_log[i].orig = Layout(1)

\* the parts entry e of a master list or slide list of a package designates
EntryParts(pkg, e) == {PresTargetPart(rel.Target) : rel \in RelsWithId(pkg.files, e.rid)}

\* C5: after merge() no two <sldMasterId> entries of the output's master
\* list resolve to the same master part: a master is listed once however
\* many requested slides use it, and a master the skeleton lists is not
\* listed again.
C5_MasterListedOnce ==
    pc = "returned" =>
        \A i, j \in DOMAIN output.pres.sldMasterIdLst :
            i # j => EntryParts(output, output.pres.sldMasterIdLst[i])
                        \cap EntryParts(output, output.pres.sldMasterIdLst[j]) = {}

\* the content-types document ct covers the archive entry q: a Default for
\* its extension or an Override for its part name
Covered(ct, q) ==
    \/ Suffix(q) \in DOMAIN ct.defaults
    \/ \E i \in DOMAIN ct.overrides : ct.overrides[i].PartName = q

\* C6: after a successful merge every entry of the output archive (the files
\* of the skeleton, the imported parts, the rewritten .rels files) is covered
\* by the output's [Content_Types].xml, by a Default for its extension or by
\* an Override for its path.
C6_EveryEntryHasContentType ==
    pc = "returned" => \A q \in DOMAIN output.files : Covered(output.ct, q)

\* C6: the output holds B's image, of a type the skeleton A declares no
\* Default for, and B's notes slide and its rewritten .rels
C6_Witness ==
    /\ pc = "returned" /\ slides[1][1] = "A"
    /\ "jpeg" \notin DOMAIN output.ct.defaults
    /\ \E q \in DOMAIN output.files :
          output.files[q].src = "B" /\ q.ext = "jpeg" /\ Covered(output.ct, q)
    /\ \E q \in DOMAIN output.files :
          output.files[q].src = "B" /\ q.rels /\ q.stem = "notesSlide"

\* C7: once merge() has returned or raised, on whichever path (success, the
\* empty request list, a source that cannot be extracted, an exception while
\* assembling or repackaging), the scratch directory of the session is gone,
\* with every source extraction and the working tree; and merge() returns or
\* raises only through _cleanup.
C7_ScratchRemovedOnEveryExit ==
    /\ [](pc \in {"returned", "raised"} =>
            ~temp_dir /\ sources_dir = <<>> /\ work_dir = <<>>)
    /\ [][pc' \in {"returned", "raised"} => pc = "cleanup"]_vars

\* C7: merge() raised after a source had been extracted (the next one was no
\* ZIP archive), and the scratch directory is gone
C7_Witness ==
    /\ pc = "raised" /\ error = "BadZipFile"
    /\ "A" \in extracted_sources /\ "X" \in extracted_sources
    /\ ~temp_dir /\ sources_dir = <<>> /\ work_dir = <<>>

\* the errors merge() raises before _repackage starts: the empty request
\* list, a source that is missing or no ZIP archive, an exception of the
\* assembly
FatalBeforeRepackage == error \in {"ValueError", "BadZipFile", "FileNotFoundError"}

\* C8: when a source package is missing or is no valid ZIP archive, or the
\* assembly raises, merge() raises (it does not return) and the call leaves
\* no file at the output path, complete or partial: the output path is
\* written by _repackage only, and no step but _cleanup follows the error.
C8_NoOutputOnFatalError ==
    /\ [](FatalBeforeRepackage => ~output.exists /\ pc \in {"cleanup", "raised"})
    /\ [](pc = "returned" => error = "none" /\ output.exists /\ output.complete)
    /\ [][output' # output => pc = "repackage"]_vars

\* C8: the second source of the session was no ZIP archive: merge() has
\* raised after extracting the first, and there is no output file
C8_Witness ==
    /\ pc = "raised" /\ error = "BadZipFile"
    /\ Len(slides) >= 2 /\ slides[1] = <<"B", 1>> /\ slides[2] = <<"X", 1>>
    /\ ~output.exists

\* C9: every reference of the output's slide list resolves: each entry names
\* one relationship of ppt/_rels/presentation.xml.rels, of type slide, whose
\* target is a part present in the output archive, and that part holds the
\* slide imported for the entry's request: the requested slide of the
\* requested source, never a part of the same name of another source.
C9_SlideReferencesResolve ==
    pc = "returned" =>
        \A k \in DOMAIN output.pres.sldIdLst :
            /\ \E rel \in RelsWithId(output.files, output.pres.sldIdLst[k].rid) :
                  rel.Type = "slide"
            /\ \A rel \in RelsWithId(output.files, output.pres.sldIdLst[k].rid) :
                  /\ PresTargetPart(rel.Target) \in DOMAIN output.files
                  /\ k <= Len(ValidRequests) =>
                        /\ output.files[PresTargetPart(rel.Target)].src = ValidRequests[k][1]
                        /\ output.files[PresTargetPart(rel.Target)].orig
                              = WantedPart(ValidRequests[k])

\* the <sldMasterId> entries of the output that this session appended: those
\* after the entries of the skeleton's own master list
IssuedMasterIds ==
    {output.pres.sldMasterIdLst[k].id :
        k \in (Len(Pkg(slides[1][1]).pres.sldMasterIdLst) + 1)
                 ..Len(output.pres.sldMasterIdLst)}

\* C10: every master id the merger issues is at least 2^31, whatever ids the
\* master list of the skeleton holds, so that no issued master id equals the
\* id of a slide of the output.
C10_MasterIdsInHighRange ==
    pc = "returned" =>
        /\ \A m \in IssuedMasterIds : AtLeast2To31(m)
        /\ \A m \in IssuedMasterIds :
              \A k \in DOMAIN output.pres.sldIdLst : output.pres.sldIdLst[k].id # m

\* the Ids of a sequence of relationships are pairwise distinct
DistinctIds(rels) ==
    \A i, j \in DOMAIN rels : rels[i].Id = rels[j].Id => i = j

\* C11: the relationship Ids of the destination's presentation.xml.rels are
\* pairwise distinct, while the slides are assembled and in the output: an Id
\* issued for an imported slide or for a newly registered master equals no
\* Id kept from the skeleton and no other Id issued in the session.
C11_RelationshipIdsDistinct ==
    /\ pc \in {"slides", "content_types", "repackage"} => DistinctIds(pres_rels_root)
    /\ (pc \in {"content_types", "repackage"} /\ PresRelsPath \in DOMAIN work_dir)
          => DistinctIds(work_dir[PresRelsPath].rels)
    /\ (pc = "returned") => DistinctIds(output.files[PresRelsPath].rels)

\* C11: the output keeps two relationships of the skeleton A (Ids 1 and 4)
\* and holds three issued ones: two slides and the master of B
C11_Witness ==
    /\ pc = "returned" /\ slides = << <<"A", 2>>, <<"B", 1>> >>
    /\ Len(output.files[PresRelsPath].rels) = 5
    /\ {output.files[PresRelsPath].rels[k].Id : k \in 1..5} = {1, 4, 5, 6, 7}

\* the slide parts of a package: the files of ppt/slides that are no sidecar
SlideParts(files) ==
    {q \in DOMAIN files : q.dir = <<"ppt", "slides">> /\ ~q.rels}

\* the parts the slide list of a package designates
ListedParts(pkg) ==
    UNION {EntryParts(pkg, pkg.pres.sldIdLst[k]) : k \in DOMAIN pkg.pres.sldIdLst}

\* C12: the output archive holds exactly the parts the requests pulled in:
\* every slide part present in the output is designated by the output's
\* slide list, so that a slide of the skeleton source that was not requested
\* is not in the output.
C12_OnlyRequestedSlidesInOutput ==
    pc = "returned" => SlideParts(output.files) \subseteq ListedParts(output)

\* ------------------------------------------------------ sessions side by side
\* Several mergers in one process.  Each is a record of the fields __init__
\* sets; the trees under its temp_dir are in tmp, the one file system all of
\* them write to.  The source packages are read and never written.
SessionIds == {1, 2}
MaxSessionRequests == 2
TempNames == {"tmpa", "tmpb"}
SessionChoices == {<<"A", 1>>, <<"B", 1>>}
ControlFields == {"pc", "idx", "error", "slides", "source_map", "extracted_sources",
                  "temp_dir", "output"}
DirFields == {"sources_dir", "work_dir", "work_pres", "work_ct"}

EmptyDir == [sources_dir |-> <<>>, work_dir |-> <<>>, work_pres |-> NoPres,
             work_ct |-> [defaults |-> <<>>, overrides |-> <<>>]]

\* the trees under the directory name; a directory that is not there holds
\* nothing
DirOf(d, name) == IF name \in DOMAIN d THEN d[name] ELSE EmptyDir

\* tempfile.mkdtemp() when it hands out one fixed directory name
Mkdtemp_OneName(d) == {"tmpa"}

\* tempfile.mkdtemp(): a directory that did not exist
Mkdtemp(d) == {name \in TempNames : name \notin DOMAIN d}

\* PPTXMerger.__init__ with the directory mkdtemp returned
NewMerger(name) ==
    [pc |-> "created", idx |-> 0, error |-> "none",
     slides |-> <<>>, source_map |-> <<>>, extracted_sources |-> {},
     imported_parts |-> <<>>, imported_content_types |-> <<>>,
     next_ids |-> InitNextIds,
     next_rId |-> 0, next_slide_id_attr |-> Id(0, 0), next_master_id_attr |-> Id(0, 0),
     existing_masters |-> {}, pres_root |-> NoPres, pres_rels_root |-> <<>>,
     source_content_types |-> <<>>, copy_log |-> <<>>,
     temp_dir |-> name, output |-> NoFile]

\* the merger m after the step of merge() that left the record self: the
\* fields of the merger go back to m, the trees back under its temp_dir
Written(m, d, self) ==
    [m |-> [f \in DOMAIN m |-> IF f \in ControlFields THEN m[f] ELSE self[f]],
     d |-> (m.temp_dir :> [f \in DirFields |-> self[f]]) @@ d]

Raise(m, d, exception) ==
    [m |-> [m EXCEPT !.error = exception, !.pc = "cleanup"], d |-> d]

\* One step of merge() on the merger m over the file system d: the same
\* steps, in the same order, as the actions of Next take.
MergeStep(m, d) ==
    LET self == DirOf(d, m.temp_dir) @@ m
    IN  CASE m.pc = "created" ->
               IF m.slides = <<>> THEN Raise(m, d, "ValueError")
               ELSE [m |-> [m EXCEPT !.pc = "extract", !.idx = 1], d |-> d]
          [] m.pc = "extract" ->
               LET source_id == m.source_map[m.idx]
                   seen == [m EXCEPT !.extracted_sources = @ \cup {source_id}]
               IN  IF ~Pkg(source_id).zip_ok THEN Raise(seen, d, "BadZipFile")
                   ELSE Written(IF m.idx < Len(m.source_map)
                                THEN [seen EXCEPT !.idx = @ + 1]
                                ELSE [seen EXCEPT !.idx = 0, !.pc = "prepare"],
                                d,
                                [self EXCEPT !.sources_dir =
                                    (source_id :> [files |-> Pkg(source_id).files,
                                                   pres |-> Pkg(source_id).pres,
                                                   ct |-> Pkg(source_id).ct]) @@ @])
          [] m.pc = "prepare" ->
               IF m.slides[1][1] \notin DOMAIN self.sources_dir
               THEN Raise(m, d, "FileNotFoundError")
               ELSE Written([m EXCEPT !.pc = "begin"], d,
                            PrepareBaseOf(self, m.slides[1][1]))
          [] m.pc = "begin" ->
               IF InPpt(Presentation) \in DOMAIN self.work_dir
                  /\ PresRelsPath \in DOMAIN self.work_dir
               THEN Written([m EXCEPT !.pc = "slides", !.idx = 1], d,
                            BeginProcessSlides(self))
               ELSE Raise(m, d, "FileNotFoundError")
          [] m.pc = "slides" /\ m.idx <= Len(m.slides) ->
               Written([m EXCEPT !.idx = @ + 1], d,
                       ProcessRequest(self, m.slides[m.idx][1], m.slides[m.idx][2]))
          [] m.pc = "slides" /\ m.idx > Len(m.slides) ->
               IF PresRelsPath \in DOMAIN self.work_dir
               THEN Written([m EXCEPT !.pc = "content_types"], d, PersistPresentation(self))
               ELSE Raise(m, d, "FileNotFoundError")
          [] m.pc = "content_types" ->
               IF ContentTypesFile \in DOMAIN self.work_dir
               THEN Written([m EXCEPT !.pc = "repackage"], d, UpdateContentTypesOf(self))
               ELSE Raise(m, d, "FileNotFoundError")
          [] m.pc = "repackage" ->
               [m |-> [m EXCEPT !.pc = "cleanup",
                                !.output = [exists |-> TRUE, complete |-> TRUE,
                                            files |-> self.work_dir,
                                            pres |-> self.work_pres,
                                            ct |-> self.work_ct]],
                d |-> d]
          [] m.pc = "cleanup" ->
               [m |-> [m EXCEPT !.pc = IF m.error = "none" THEN "returned" ELSE "raised"],
                d |-> [name \in DOMAIN d \ {m.temp_dir} |-> d[name]]]

\* PPTXMerger(output_path) for session i
CreateSession(i) ==
    /\ i \notin DOMAIN sessions
    /\ \E name \in Mkdtemp(tmp) :
          /\ sessions' = (i :> NewMerger(name)) @@ sessions
          /\ tmp' = (name :> EmptyDir) @@ tmp
    /\ UNCHANGED <<vars, calls, deck, flow>>

\* add_slide on the merger of session i
SessionAddSlide(i) ==
    /\ i \in DOMAIN sessions
    /\ sessions[i].pc = "created"
    /\ Len(sessions[i].slides) < MaxSessionRequests
    /\ \E r \in SessionChoices :
          sessions' = [sessions EXCEPT
              ![i].slides = Append(@, r),
              ![i].source_map = IF InSeq(r[1], @) THEN @ ELSE Append(@, r[1])]
    /\ UNCHANGED <<vars, calls, tmp, deck, flow>>

\* the next step of merge() on the merger of session i
SessionMerge(i) ==
    /\ i \in DOMAIN sessions
    /\ sessions[i].pc \notin {"returned", "raised"}
    /\ LET after == MergeStep(sessions[i], tmp)
       IN  /\ sessions' = [sessions EXCEPT ![i] = after.m]
           /\ tmp' = after.d
    /\ UNCHANGED <<vars, calls, deck, flow>>

NextSessions ==
    \E i \in SessionIds : CreateSession(i) \/ SessionAddSlide(i) \/ SessionMerge(i)

SpecSessions == Init /\ [][NextSessions]_<<vars, calls, sessions, tmp>>

\* merge() run to its end on the merger m, alone on the file system d
RECURSIVE Finish(_, _)
Finish(m, d) ==
    IF m.pc \in {"returned", "raised"} THEN m
    ELSE Finish(MergeStep(m, d).m, MergeStep(m, d).d)

\* what a merger with the requests of m does when no other merger exists
Alone(m) ==
    Finish([NewMerger("tmpa") EXCEPT !.slides = m.slides, !.source_map = m.source_map],
           "tmpa" :> EmptyDir)

\* C13: two mergers whose steps interleave share no scratch directory, and
\* each one ends as it ends when it runs alone: the same exception or none,
\* and the same output package; this holds too when both read the same source
C13_SessionsDoNotInterfere ==
    /\ \A i, j \in DOMAIN sessions :
          (i # j /\ sessions[i].temp_dir = sessions[j].temp_dir)
             => \E k \in {i, j} : sessions[k].pc \in {"returned", "raised"}
    /\ \A i \in DOMAIN sessions :
          sessions[i].pc \in {"cleanup", "returned", "raised"}
             => /\ sessions[i].error = Alone(sessions[i]).error
                /\ sessions[i].output = Alone(sessions[i]).output

C13_Witness ==
    /\ DOMAIN sessions = {1, 2}
    /\ sessions[1].pc = "cleanup" /\ sessions[2].pc = "cleanup"
    /\ sessions[1].slides = << <<"A", 1>>, <<"B", 1>> >>
    /\ sessions[2].slides = << <<"B", 1>>, <<"A", 1>> >>
    /\ sessions[1].output.complete /\ sessions[2].output.complete
    /\ sessions[1].output # sessions[2].output
    /\ DOMAIN tmp = {"tmpa", "tmpb"}

\* the phases of merge() in the order of its code
Rank(p) ==
    CASE p = "created" -> 0
      [] p = "extract" -> 1
      [] p = "prepare" -> 2
      [] p = "begin" -> 3
      [] p = "slides" -> 4
      [] p = "content_types" -> 5
      [] p = "repackage" -> 6
      [] p = "cleanup" -> 7
      [] p \in {"returned", "raised"} -> 8

AllExtracted == \A k \in DOMAIN source_map : source_map[k] \in DOMAIN sources_dir

\* every Override _update_content_types has to write is in [Content_Types].xml
ContentTypesFinal ==
    /\ \A k \in DOMAIN imported_content_types :
          \E i \in DOMAIN work_ct.overrides :
              work_ct.overrides[i].PartName = imported_content_types[k].PartName
    /\ \E i \in DOMAIN work_ct.overrides :
          work_ct.overrides[i].PartName = InPpt(Presentation)

\* the step is one phase of merge() in its place
PhaseInOrder ==
    \* the phases follow one another, and an exception goes to the cleanup
    /\ IF error' = "none" THEN Rank(pc') \in {Rank(pc), Rank(pc) + 1}
       ELSE pc' = "cleanup" \/ (pc = "cleanup" /\ pc' = "raised")
    /\ error # "none" =>
          /\ pc = "cleanup" /\ pc' = "raised" /\ error' = error
          /\ output' = output /\ copy_log' = copy_log /\ work_dir' = <<>>
          /\ pres_root' = pres_root /\ imported_parts' = imported_parts
    \* the skeleton is copied and parts are imported once every source is extracted
    /\ pc \in {"created", "extract"} => copy_log' = <<>> /\ work_dir' = <<>>
    /\ pc = "prepare" => AllExtracted
    /\ copy_log' # copy_log =>
          /\ pc = "slides" /\ AllExtracted
          /\ \A k \in DOMAIN copy_log' : copy_log'[k].src \in DOMAIN sources_dir
    \* a master is registered in the turn of a slide once the slide is
    \* imported, and before the slide is appended
    /\ pres_root'.sldMasterIdLst # pres_root.sldMasterIdLst /\ pc = "slides" =>
          LET master == pres_root'.sldMasterIdLst[Len(pres_root'.sldMasterIdLst)]
              slide == pres_root'.sldIdLst[Len(pres_root'.sldIdLst)]
              rel == CHOOSE x \in DOMAIN pres_rels_root' : pres_rels_root'[x].Id = master.rid
          IN  /\ Len(pres_root'.sldIdLst) = Len(pres_root.sldIdLst) + 1
              /\ master.rid < slide.rid
              /\ \E key \in DOMAIN imported_parts' : key[1] = slides[idx][1]
                    /\ InPpt(imported_parts'[key]) \in DOMAIN work_dir'
                    /\ work_dir'[InPpt(imported_parts'[key])].orig = WantedPart(slides[idx])
              /\ InPpt(AsPartPath(pres_rels_root'[rel].Target)) \in DOMAIN work_dir'
    \* the presentation is written once every request had its turn
    /\ (work_pres' # work_pres /\ pc = "slides") => idx > Len(slides) /\ work_pres' = pres_root
    /\ (pc = "slides" /\ pc' = "content_types") => idx > Len(slides) /\ work_pres' = pres_root
    /\ (pc = "slides" /\ idx <= Len(slides)) => pc' = "slides" /\ idx' = idx + 1
    \* the archive is written once the content types are final
    /\ pc = "repackage" => ContentTypesFinal
    /\ output' # output => pc = "repackage"

\* C14: merge() runs extract, copy skeleton, import and register, finalize
\* content types, repackage in this order: nothing is imported before every
\* source is extracted, a master is registered after the imports of its
\* slide, the presentation is written after the last request, the archive
\* after the content types, and an exception is followed by the cleanup only
C14_PhasesInOrder == [][PhaseInOrder]_vars

C14_Witness ==
    /\ pc = "returned" /\ slides = << <<"A", 1>>, <<"B", 1>> >>
    /\ Len(output.pres.sldMasterIdLst) = 2 /\ Len(output.pres.sldIdLst) = 2
    /\ Len(copy_log) = 6

\* the counters and the cache a merger fresh from __init__ has once
\* _prepare_base has scanned the skeleton that lies in the working tree
FreshScan ==
    ScanBaseContent([Self EXCEPT !.next_ids = InitNextIds, !.imported_parts = <<>>],
                    slides[1][1])

\* C15: the second merge() call on a merger starts, once the skeleton is
\* scanned, from the part counters and the import cache a new merger has at
\* that point, with no entry of the first call, and when it returns the
\* output is the package a merge of the same requests by a new merger writes
C15_SecondMergeStartsAfresh ==
    calls = 2 =>
        /\ pc = "begin" =>
              /\ next_ids = FreshScan.next_ids
              /\ imported_parts = FreshScan.imported_parts
        /\ pc = "returned" =>
              output = Alone([slides |-> slides, source_map |-> source_map]).output

\* C16: the import cache maps different (source, original path) keys to
\* different destination paths, never changes the destination of a key, and
\* every copy of an import goes to a path at which the working tree, the
\* skeleton included, had no file
C16_CacheInjectiveNamesFresh ==
    [][/\ \A k1, k2 \in DOMAIN imported_parts' :
             imported_parts'[k1] = imported_parts'[k2] => k1 = k2
       /\ \A k \in DOMAIN imported_parts :
             k \in DOMAIN imported_parts' /\ imported_parts'[k] = imported_parts[k]
       /\ \A i \in DOMAIN copy_log' : copy_log'[i].fresh]_vars

\* the turn of a request that names a slide of its source copies files of
\* that source only, and the part its new slide-list entry designates, when
\* the working tree has it, is the requested slide of that source
OwnSourceOnly ==
    (pc = "slides" /\ idx <= Len(slides) /\ ValidIndex(slides[idx])) =>
        /\ \A i \in DOMAIN copy_log' :
              i > Len(copy_log) =>
                 /\ copy_log'[i].src = slides[idx][1]
                 /\ work_dir'[InPpt(copy_log'[i].new)].src = slides[idx][1]
                 /\ work_dir'[InPpt(copy_log'[i].new)].orig = InPpt(copy_log'[i].orig)
        /\ LET part == PresTargetPart(pres_rels_root'[Len(pres_rels_root')].Target)
           IN  part \in DOMAIN work_dir' =>
                  /\ work_dir'[part].src = slides[idx][1]
                  /\ work_dir'[part].orig = WantedPart(slides[idx])

\* C17: a request on source S is resolved and copied from the extraction of
\* S: the part imported for it is never a part of another source that has
\* the same original path, nor a cached import of one
C17_ImportedFromOwnSource == [][OwnSourceOnly]_vars

\* the parts of a source under ppt/ (sidecars are not parts)
PartCount(s) == Cardinality({q \in DOMAIN Pkg(s).files : UnderPpt(q) /\ ~q.rels})

\* The calls of a run of _import_part followed to their end: deepest is the
\* largest number of _process_relationships calls in progress at one time,
\* entered the parts for which one was started, in order.  A run that goes
\* deeper than limit is given up.
RECURSIVE Walk(_, _, _)
Walk(run, w, limit) ==
    IF run.done \/ w.deepest > limit THEN w
    ELSE CHOOSE out \in
            {Walk(next,
                  [deepest |-> IF Len(next.stack) > w.deepest
                               THEN Len(next.stack) ELSE w.deepest,
                   entered |-> IF Len(next.stack) > Len(run.stack)
                               THEN Append(w.entered, next.stack[Len(next.stack)].old)
                               ELSE w.entered],
                  limit) : next \in {StepRelationships(run)}} : TRUE

\* the import the turn of request k starts, when its slide is found
FirstCall(k) ==
    EnterPart([self |-> Self, s |-> slides[k][1], stack |-> <<>>,
               ret |-> Presentation, done |-> FALSE],
              AsPartPath(GetSourceSlidePart(Self, slides[k][1], slides[k][2]).target),
              "slides")

WalkOf(k) ==
    CHOOSE w \in
        {Walk(first,
              [deepest |-> Len(first.stack),
               entered |-> IF first.stack = <<>> THEN <<>> ELSE <<first.stack[1].old>>],
              PartCount(slides[k][1])) : first \in {FirstCall(k)}} : TRUE

\* C18: the import of a slide ends, also through the cycles slide <-> notes
\* slide and layout <-> master: no part is entered twice in a session (a
\* part entered is in the cache from then on), and the calls in progress
\* never outnumber the parts of the source
C18_ImportEndsOnCycles ==
    (/\ pc = "slides" /\ idx <= Len(slides)
     /\ GetSourceSlidePart(Self, slides[idx][1], slides[idx][2]).found) =>
        \A w \in {WalkOf(idx)} :
            /\ w.deepest <= PartCount(slides[idx][1])
            /\ \A i, j \in DOMAIN w.entered : w.entered[i] = w.entered[j] => i = j
            /\ \A i \in DOMAIN w.entered :
                  <<slides[idx][1], w.entered[i]>> \notin DOMAIN imported_parts

\* B's slide, layout, master and notes slide were entered, three deep, and
\* the notes slide that points back at its slide is written
C18_Witness ==
    /\ pc = "slides" /\ idx = 2 /\ slides = << <<"A", 1>>, <<"B", 1>> >>
    /\ WalkOf(2).deepest = 3
    /\ Len(WalkOf(2).entered) = 4
    /\ \E i \in DOMAIN WalkOf(2).entered : WalkOf(2).entered[i] = Notes(1)
    /\ RunImport(FirstCall(2)).self.work_dir[RelsOf(InPpt(MergedNotes))].rels[1].Target
          = Up(Slide(3))

\* the parts under ppt/ the .rels of part q of source s names (q and the
\* results are paths from ppt/)
Deps(s, q) ==
    IF q.ext = "xml" /\ RelsOf(InPpt(q)) \in DOMAIN Pkg(s).files
    THEN {FromPpt(hit.path) :
            hit \in {full \in {ResolveInSource(q.dir, Pkg(s).files[RelsOf(InPpt(q))].rels[k].Target) :
                                  k \in DOMAIN Pkg(s).files[RelsOf(InPpt(q))].rels} :
                        ~full.escaped /\ UnderPpt(full.path)}}
    ELSE {}

\* the relationship closure of a set of parts of source s
RECURSIVE Closure(_, _)
Closure(s, parts) ==
    IF UNION {Deps(s, q) : q \in parts} \subseteq parts THEN parts
    ELSE Closure(s, parts \cup UNION {Deps(s, q) : q \in parts})

\* part q of source s is in the tree files at the path the cache gives, and
\* if it is XML with a .rels in the source its .rels is there with every
\* target under ppt/ rewritten to the new path of the part it names
ImportedWhole(cache, files, s, q) ==
    /\ <<s, q>> \in DOMAIN cache
    /\ InPpt(cache[<<s, q>>]) \in DOMAIN files
    /\ files[InPpt(cache[<<s, q>>])].src = s
    /\ files[InPpt(cache[<<s, q>>])].orig = InPpt(q)
    /\ (q.ext = "xml" /\ RelsOf(InPpt(q)) \in DOMAIN Pkg(s).files) =>
          /\ RelsOf(InPpt(cache[<<s, q>>])) \in DOMAIN files
          /\ LET old == Pkg(s).files[RelsOf(InPpt(q))].rels
                 new == files[RelsOf(InPpt(cache[<<s, q>>]))].rels
             IN  /\ Len(new) = Len(old)
                 /\ \A k \in DOMAIN old :
                       LET full == ResolveInSource(q.dir, old[k].Target)
                       IN  (~full.escaped /\ UnderPpt(full.path)) =>
                              /\ <<s, FromPpt(full.path)>> \in DOMAIN cache
                              /\ ResolveInWork(cache[<<s, q>>].dir, new[k].Target).path
                                    = InPpt(cache[<<s, FromPpt(full.path)>>])

\* part q of source s was copied into the working tree, by _import_part or
\* with the skeleton, to the path the cache gives; a file is at that path,
\* and a .rels beside it if q is XML with a .rels in the source
CopiedBefore(cache, files, log, s, q) ==
    /\ <<s, q>> \in DOMAIN cache
    /\ InPpt(cache[<<s, q>>]) \in DOMAIN files
    /\ (q.ext = "xml" /\ RelsOf(InPpt(q)) \in DOMAIN Pkg(s).files) =>
          RelsOf(InPpt(cache[<<s, q>>])) \in DOMAIN files
    /\ \/ \E i \in DOMAIN log :
             log[i].src = s /\ log[i].orig = q /\ log[i].new = cache[<<s, q>>]
       \/ s = slides[1][1] /\ cache[<<s, q>>] = q

\* The turn of a request for whose slide _import_part returned a path of the
\* cache, all bytes of the slide's closure being in the source: every part of
\* the closure has been copied, and in the turn that imported the slide each
\* is in the working tree whole, its .rels rewritten.
ClosureImported ==
    (/\ pc = "slides" /\ idx <= Len(slides) /\ ValidIndex(slides[idx])
     /\ <<slides[idx][1], FromPpt(WantedPart(slides[idx]))>> \in DOMAIN imported_parts'
     /\ \A q \in Closure(slides[idx][1], {FromPpt(WantedPart(slides[idx]))}) :
           InPpt(q) \in DOMAIN Pkg(slides[idx][1]).files) =>
        \A q \in Closure(slides[idx][1], {FromPpt(WantedPart(slides[idx]))}) :
            /\ CopiedBefore(imported_parts', work_dir', copy_log', slides[idx][1], q)
            /\ <<slides[idx][1], FromPpt(WantedPart(slides[idx]))>> \notin DOMAIN imported_parts
                  => ImportedWhole(imported_parts', work_dir', slides[idx][1], q)

\* C19: when _import_part has returned the new path of a slide to
\* _process_slides and no bytes of the source are missing, every part of the
\* slide's relationship closure has been copied into the working tree, and
\* every XML part of the closure that has a .rels in the source has its
\* rewritten .rels there
C19_ClosureCopiedBeforeReturn == [][ClosureImported]_vars

\* B's slide was imported after A's: its layout, master, theme, image and
\* notes slide are in the working tree with it
C19_Witness ==
    /\ pc = "slides" /\ idx = 3 /\ slides = << <<"A", 1>>, <<"B", 1>> >>
    /\ Cardinality(Closure("B", {Slide(1)})) = 6
    /\ \A q \in Closure("B", {Slide(1)}) : ImportedWhole(imported_parts, work_dir, "B", q)
    /\ imported_parts[<<"B", Slide(1)>>] = Slide(3)

\* the counter of next_ids that numbered the destination path p, and the
\* number it gave
CounterOf(p) ==
    IF p.dir = <<"other">> THEN "unknown"
    ELSE IF p.dir = <<"media">> THEN "media" ELSE p.stem
NumberOf(p) == IF p.dir = <<"other">> THEN p.tag ELSE p.num

\* the entries a step appended to a list
Appended(old, new) == {new[i] : i \in (Len(old) + 1)..Len(new)}

\* a step leaves no counter lower, and what it issued, part numbers,
\* relationship ids, slide ids and master ids, are the values between the
\* counter before and the counter after, each taken once
CountersAdvance ==
    /\ \A k \in DOMAIN next_ids : next_ids'[k] >= next_ids[k]
    /\ next_rId' >= next_rId
    /\ ~IdLess(next_slide_id_attr', next_slide_id_attr)
    /\ ~IdLess(next_master_id_attr', next_master_id_attr)
    /\ \A e \in Appended(copy_log, copy_log') :
          /\ NumberOf(e.new) >= next_ids[CounterOf(e.new)]
          /\ NumberOf(e.new) < next_ids'[CounterOf(e.new)]
    /\ \A i, j \in DOMAIN copy_log' : copy_log'[i].new = copy_log'[j].new => i = j
    /\ pc = "slides" =>
          /\ \A rel \in Appended(pres_rels_root, pres_rels_root') :
                rel.Id >= next_rId /\ rel.Id < next_rId'
          /\ Len(pres_rels_root') - Len(pres_rels_root) = next_rId' - next_rId
          /\ \A e \in Appended(pres_root.sldIdLst, pres_root'.sldIdLst) :
                ~IdLess(e.id, next_slide_id_attr) /\ IdLess(e.id, next_slide_id_attr')
          /\ Len(pres_root'.sldIdLst) - Len(pres_root.sldIdLst) <= 1
          /\ \A e \in Appended(pres_root.sldMasterIdLst, pres_root'.sldMasterIdLst) :
                ~IdLess(e.id, next_master_id_attr) /\ IdLess(e.id, next_master_id_attr')
          /\ Len(pres_root'.sldMasterIdLst) - Len(pres_root.sldMasterIdLst) <= 1
    \* the number taken for a slide whose bytes are missing is used up
    /\ (/\ pc = "slides" /\ idx <= Len(slides) /\ ValidIndex(slides[idx])
        /\ WantedPart(slides[idx]) \notin DOMAIN Pkg(slides[idx][1]).files) =>
          /\ next_ids'["slide"] = next_ids["slide"] + 1
          /\ copy_log' = copy_log

\* C20: during a session no part counter and no id counter goes down, and no
\* counter gives the same value twice, also when the import that took a
\* number fails because the bytes of the part are missing
C20_CountersNeverReissue == [][CountersAdvance]_vars

\* C's slide 2 took the number 3 and was not copied; B's slide got 4
C20_Witness ==
    /\ pc = "slides" /\ idx = 4
    /\ slides = << <<"A", 1>>, <<"C", 2>>, <<"B", 1>> >>
    /\ InPpt(Slide(3)) \notin DOMAIN work_dir
    /\ imported_parts[<<"B", Slide(1)>>] = Slide(4)
    /\ next_ids["slide"] = 5

\* ------------------------------------------------------- masters of slides
\* The parts the relationships of type `type` of part q designate in a
\* package (q and the results are paths from the package root)
LinkedParts(files, q, type) ==
    IF ~UnderPpt(q) \/ RelsOf(q) \notin DOMAIN files THEN {}
    ELSE {ResolveInSource(Tail(q.dir), rel.Target).path :
            rel \in {r \in {files[RelsOf(q)].rels[k] : k \in DOMAIN files[RelsOf(q)].rels} :
                        r.Type = type /\ ~ResolveInSource(Tail(q.dir), r.Target).escaped}}

\* the masters reached from slide part q: slide -> layout -> master
MastersOfSlide(files, q) ==
    UNION {LinkedParts(files, l, "slideMaster") :
              l \in LinkedParts(files, q, "slideLayout") \cap DOMAIN files}

\* the parts the master list of a package designates
ListedMasters(pkg) ==
    UNION {EntryParts(pkg, pkg.pres.sldMasterIdLst[k]) :
              k \in DOMAIN pkg.pres.sldMasterIdLst}

\* C21: in the output of a merge, for every slide part the slide list
\* designates, every master reached from it through the .rels files of the
\* output (slide -> layout -> master) is a part of the output that the master
\* list designates.
C21_SlideMastersListed ==
    pc = "returned" =>
        \A q \in ListedParts(output) \cap DOMAIN output.files :
            /\ MastersOfSlide(output.files, q) \subseteq DOMAIN output.files
            /\ MastersOfSlide(output.files, q) \subseteq ListedMasters(output)

\* C21: a slide of B was merged into the skeleton A: the output lists two
\* slides, the second reaches the master imported from B, and the master list
\* holds A's master and that one
C21_Witness ==
    /\ pc = "returned" /\ slides = << <<"A", 1>>, <<"B", 1>> >>
    /\ Len(output.pres.sldIdLst) = 2
    /\ Len(output.pres.sldMasterIdLst) = 2
    /\ \E q \in ListedParts(output) \cap DOMAIN output.files :
          /\ output.files[q].src = "B"
          /\ MastersOfSlide(output.files, q) # {}
          /\ \A m \in MastersOfSlide(output.files, q) :
                m \in ListedMasters(output) /\ output.files[m].src = "B"

\* --------------------------------------------------- content-type finalization
\* the Overrides a step appended to <work>/[Content_Types].xml
AppendedOverrides ==
    {work_ct'.overrides[k] : k \in (Len(work_ct.overrides) + 1)..Len(work_ct'.overrides)}

\* C22: _update_content_types appends an Override for a collected
\* (path, content type) only when the destination's [Content_Types].xml does
\* not cover the path already, by an Override for the path or by a Default
\* for its extension: a part a Default covers gets no Override.
C22_OverrideOnlyIfUncovered ==
    [][(pc = "content_types" /\ pc' = "repackage") =>
          \A o \in AppendedOverrides :
              o.PartName # InPpt(Presentation) => ~Covered(work_ct, o.PartName)]_vars

\* ------------------------------------------------- parts whose bytes are missing
\* part p (relative to ppt/) of source s has no bytes in the extraction
BytesMissing(s, p) == InPpt(p) \notin DOMAIN sources_dir[s].files

\* The entries a written .rels file took over from the source for targets
\* whose bytes are missing hold the original path, seen from the new place
MissingTargetsKept ==
    \A q \in {f \in DOMAIN work_dir : f.rels /\ UnderPpt(f) /\ f # PresRelsPath} :
        LET file == work_dir[q]
            old == sources_dir[file.src].files[file.orig].rels
        IN  (file.src # slides[1][1] /\ file.src \in DOMAIN sources_dir) =>
            \A k \in DOMAIN old :
                LET full == ResolveInSource(Tail(file.orig.dir), old[k].Target)
                IN  (~full.escaped /\ UnderPpt(full.path)
                        /\ BytesMissing(file.src, FromPpt(full.path)))
                    => file.rels[k].Target
                          = RelPath(AsTarget(FromPpt(full.path)), Tail(q.dir))

\* while the slides are assembled: nothing was copied, cached or given a
\* content type for a part whose bytes are missing
NothingForMissingParts ==
    pc \in {"slides", "content_types", "repackage"} =>
        /\ \A i \in DOMAIN copy_log : ~BytesMissing(copy_log[i].src, copy_log[i].orig)
        /\ \A key \in DOMAIN imported_parts : ~BytesMissing(key[1], key[2])
        /\ \A i \in DOMAIN imported_content_types :
              \E j \in DOMAIN copy_log :
                  InPpt(copy_log[j].new) = imported_content_types[i].PartName
        /\ MissingTargetsKept

\* the request the loop of _process_slides stands at names a slide whose
\* bytes are missing from the extraction of its source
MissingSlideRequested ==
    /\ pc = "slides" /\ idx <= Len(slides)
    /\ GetSourceSlidePart(Self, slides[idx][1], slides[idx][2]).found
    /\ PresTargetPart(GetSourceSlidePart(Self, slides[idx][1], slides[idx][2]).target)
           \notin DOMAIN sources_dir[slides[idx][1]].files
    /\ <<slides[idx][1],
         AsPartPath(GetSourceSlidePart(Self, slides[idx][1], slides[idx][2]).target)>>
           \notin DOMAIN imported_parts

\* its turn copies nothing, caches nothing, records no content type, hands
\* the original path on to the slide relationship, and raises nothing
MissingSlideTurn ==
    MissingSlideRequested =>
        /\ copy_log' = copy_log /\ work_dir' = work_dir
        /\ imported_parts' = imported_parts
        /\ imported_content_types' = imported_content_types
        /\ pres_rels_root' =
              Append(pres_rels_root,
                     Rel(next_rId, "slide",
                         GetSourceSlidePart(Self, slides[idx][1], slides[idx][2]).target))
        /\ error' = error /\ pc' = "slides" /\ idx' = idx + 1

\* C23: when the bytes of a source part are missing from the extraction,
\* _import_part copies nothing, adds no entry to the import cache and records
\* no content type for the part, and returns the original path: the slide
\* relationship or the rewritten .rels entry that asked for the part names the
\* original path.  Nothing is raised: the loop moves on to the next request,
\* and the merge of presentation packages fails on nothing but the writing of
\* the output.
C23_MissingBytesDegrade ==
    /\ []NothingForMissingParts
    /\ [][MissingSlideTurn]_vars
    /\ []((slides # <<>> /\ AllPresentations /\ pc = "raised") => error = "OSError")

\* C23: slide 1 of C, whose image has no bytes, and slide 2 of C, which has
\* no bytes itself, were merged into the skeleton A: the merge returned, the
\* output lists two slides, and nothing of C but slide 1, its layout, master
\* and theme was copied
C23_Witness ==
    /\ pc = "returned" /\ slides = << <<"A", 1>>, <<"C", 1>>, <<"C", 2>> >>
    /\ Len(output.pres.sldIdLst) = 3
    /\ {copy_log[i].orig : i \in DOMAIN copy_log}
          = {Slide(1), Layout(1), Master(1), Theme(1)}
    /\ next_ids["media"] = 3 /\ next_ids["slide"] = 5
    /\ \E q \in DOMAIN output.files :
          /\ q.rels /\ output.files[q].src = "C"
          /\ output.files[q].orig = RelsOf(InPpt(Slide(1)))
          /\ output.files[q].rels[2].Target = Up(Image(1, "png"))

\* ------------------------------------------- what is inherited from the skeleton
\* the relationships of the skeleton's presentation.xml.rels that are no
\* slide relationships, in document order
SkeletonKept ==
    SeqFilter(Pkg(slides[1][1]).files[PresRelsPath].rels, NotSlideRel)

\* the positions of the slide relationships of a presentation.xml.rels
SlideRelsAt(rels) == {k \in DOMAIN rels : IsSlideRel(rels[k])}

\* C24: in the output the presentation has no extension list and no
\* custom-show list; its relationships begin with the non-slide relationships
\* of the skeleton, unchanged and in their order, and every relationship after
\* them was appended by the session (a slide or a master); the slide list
\* holds one entry per request that names a slide, numbered from 256 on, and
\* the slide relationships are exactly the ones those entries name, one each:
\* no entry and no slide relationship of the skeleton is left.
C24_NothingSlideInherited ==
    pc = "returned" =>
        LET out == output.files[PresRelsPath].rels
            lst == output.pres.sldIdLst
        IN  /\ ~output.pres.extLst /\ ~output.pres.custShowLst
            /\ Len(out) >= Len(SkeletonKept)
            /\ SubSeq(out, 1, Len(SkeletonKept)) = SkeletonKept
            /\ \A k \in (Len(SkeletonKept) + 1)..Len(out) :
                  out[k].Type \in {"slide", "slideMaster"}
            /\ Len(lst) = Len(ValidRequests)
            /\ \A k \in DOMAIN lst : lst[k].id = Id(0, 255 + k)
            /\ \A k \in DOMAIN lst :
                  \E j \in SlideRelsAt(out) :
                      /\ out[j].Id = lst[k].rid
                      /\ \A i \in DOMAIN out : out[i].Id = lst[k].rid => i = j
            /\ \A j \in SlideRelsAt(out) :
                  /\ j > Len(SkeletonKept)
                  /\ Cardinality({k \in DOMAIN lst : lst[k].rid = out[j].Id}) = 1

\* C24: the skeleton A lists two slides and has an extension list and a
\* custom-show list; only its slide 2 was requested, and the output lists one
\* slide under a relationship issued by the session
C24_Witness ==
    /\ pc = "returned" /\ slides = << <<"A", 2>> >>
    /\ PkgA.pres.extLst /\ PkgA.pres.custShowLst /\ Len(PkgA.pres.sldIdLst) = 2
    /\ output.pres.sldIdLst = <<[id |-> Id(0, 256), rid |-> 5]>>
    /\ Cardinality(SlideRelsAt(output.files[PresRelsPath].rels)) = 1
    /\ Len(output.files[PresRelsPath].rels) = 3

\* ------------------------------------------------------ rewritten relationships
\* the .rels files of the working tree that _process_relationships wrote:
\* those of parts of a source other than the skeleton
WrittenRels ==
    {q \in DOMAIN work_dir :
        q.rels /\ UnderPpt(q) /\ q # PresRelsPath /\ work_dir[q].src # slides[1][1]}

\* entry k of the written .rels file q names an imported target, and read
\* from the directory of the new part it designates the path the import
\* cache holds for that target
TargetDesignatesImport(q, k) ==
    LET file == work_dir[q]
        old == sources_dir[file.src].files[file.orig].rels[k]
        full == ResolveInSource(Tail(file.orig.dir), old.Target)
        new == ResolveInSource(Tail(q.dir), file.rels[k].Target)
    IN  (~full.escaped /\ UnderPpt(full.path)
            /\ <<file.src, FromPpt(full.path)>> \in DOMAIN imported_parts)
        => /\ ~new.escaped
           /\ new.path = InPpt(imported_parts[<<file.src, FromPpt(full.path)>>])

\* C25: for every relationship of an imported part whose target was imported,
\* the Target written to the new .rels file, resolved against the directory
\* of the new part, designates the destination path _import_part returned for
\* the target, also when the old part and the new part lie at different
\* depths.
C25_RewrittenTargetsResolve ==
    pc \in {"slides", "content_types", "repackage"} =>
        \A q \in WrittenRels :
            /\ Len(work_dir[q].rels) = Len(sources_dir[work_dir[q].src].files[work_dir[q].orig].rels)
            /\ \A k \in DOMAIN work_dir[q].rels : TargetDesignatesImport(q, k)

\* C25: slide 1 of D was merged into the skeleton A.  Its notes slide came
\* from notesSlides/v2/ (two levels below ppt/) and went to other/ (one
\* level); its relationship to the slide, "../../slides/slide1.xml" in D, now
\* reads "../slides/slide3.xml"
C25_Witness ==
    /\ pc = "repackage" /\ slides = << <<"A", 1>>, <<"D", 1>> >>
    /\ imported_parts[<<"D", DeepNotes>>] = [DeepNotes EXCEPT !.dir = <<"other">>, !.tag = 1]
    /\ imported_parts[<<"D", Slide(1)>>] = Slide(3)
    /\ work_dir[RelsOf(InPpt([DeepNotes EXCEPT !.dir = <<"other">>, !.tag = 1]))].rels
          = <<Rel(1, "slide", Up(Slide(3)))>>

\* ------------------------------------------------ targets outside the part tree
\* entry k of the source's .rels file for the written file q names a target
\* that lies outside ppt/ of the source
OutsideTarget(q, k) ==
    LET file == work_dir[q]
        full == ResolveInSource(Tail(file.orig.dir),
                                sources_dir[file.src].files[file.orig].rels[k].Target)
    IN  full.escaped \/ ~UnderPpt(full.path)

\* every written .rels file keeps an entry whose target lies outside ppt/ as
\* the source has it, and every entry whose target lies in ppt/ and has bytes
\* was followed: the target is in the import cache
OutsideTargetsSkipped ==
    pc \in {"slides", "content_types", "repackage"} =>
        \A q \in WrittenRels :
            LET file == work_dir[q]
                old == sources_dir[file.src].files[file.orig].rels
            IN  \A k \in DOMAIN old :
                    IF OutsideTarget(q, k)
                    THEN file.rels[k] = old[k]
                    ELSE LET p == FromPpt(ResolveInSource(Tail(file.orig.dir),
                                                          old[k].Target).path)
                         IN  ~BytesMissing(file.src, p)
                                => <<file.src, p>> \in DOMAIN imported_parts

\* the sum of the part counters
CounterSum(ids) ==
    ids["slide"] + ids["slideLayout"] + ids["slideMaster"] + ids["theme"]
    + ids["media"] + ids["notesSlide"] + ids["notesMaster"] + ids["unknown"]

\* the turn in which _import_part returns the new path of a slide whose
\* relationship closure has all its bytes takes one number per part it copies
\* and no other: none for a target outside ppt/; it raises nothing and moves
\* on
NumbersOnlyForCopies ==
    (/\ pc = "slides" /\ idx <= Len(slides) /\ ValidIndex(slides[idx])
     /\ <<slides[idx][1], FromPpt(WantedPart(slides[idx]))>> \in DOMAIN imported_parts'
     /\ pres_rels_root'[Len(pres_rels_root')].Target
           = AsTarget(imported_parts'[<<slides[idx][1], FromPpt(WantedPart(slides[idx]))>>])
     /\ \A q \in Closure(slides[idx][1], {FromPpt(WantedPart(slides[idx]))}) :
           InPpt(q) \in DOMAIN Pkg(slides[idx][1]).files) =>
        /\ CounterSum(next_ids') - CounterSum(next_ids) = Len(copy_log') - Len(copy_log)
        /\ \A e \in Appended(copy_log, copy_log') :
              e.orig \in Closure(slides[idx][1], {FromPpt(WantedPart(slides[idx]))})
        /\ error' = error /\ pc' = "slides" /\ idx' = idx + 1

\* C26: a relationship whose target does not lie in ppt/ of the source is
\* skipped: no part is imported and no number is taken for it, its entry
\* stays as it is, the relationships after it in the same .rels are followed
\* all the same, nothing is raised, and the merge of presentation packages
\* fails on nothing but the writing of the output.
C26_OutsideTargetsSkipped ==
    /\ []OutsideTargetsSkipped
    /\ [][NumbersOnlyForCopies]_vars
    /\ []((slides # <<>> /\ AllPresentations /\ pc = "raised") => error = "OSError")

\* C26: slide 1 of D was merged into the skeleton A and the merge returned:
\* the entry for ../../customXml/item1.xml is in the new .rels unchanged, no
\* file came from customXml/, and the notes slide named after it was imported
C26_Witness ==
    /\ pc = "returned" /\ slides = << <<"A", 1>>, <<"D", 1>> >>
    /\ output.files[RelsOf(InPpt(Slide(3)))].src = "D"
    /\ output.files[RelsOf(InPpt(Slide(3)))].rels[2] = Rel(2, "customXml", CustomXml)
    /\ output.files[RelsOf(InPpt(Slide(3)))].rels[3].Type = "notesSlide"
    /\ ResolveInSource(<<"slides">>, output.files[RelsOf(InPpt(Slide(3)))].rels[3].Target).path
          \in DOMAIN output.files
    /\ \A q \in DOMAIN output.files : q.stem # "item"
    /\ Len(copy_log) = 5 /\ next_ids["unknown"] = 2

\* ------------------------------------------------ the presentation's Override
\* the positions of the Overrides of a [Content_Types].xml for part name n
OverridesFor(ct, n) == {k \in DOMAIN ct.overrides : ct.overrides[k].PartName = n}

\* a [Content_Types].xml with exactly one Override for /ppt/presentation.xml
\* and no part name overridden twice
OneOverrideEach(ct) ==
    /\ Cardinality(OverridesFor(ct, InPpt(Presentation))) = 1
    /\ \A i, j \in DOMAIN ct.overrides :
          ct.overrides[i].PartName = ct.overrides[j].PartName => i = j

\* C27: once _update_content_types has run, the destination's
\* [Content_Types].xml holds an Override for /ppt/presentation.xml, also when
\* the skeleton declared none (it is then added with the content type of a
\* presentation), and no part name has two Overrides; the output archive
\* holds that document.
C27_PresentationOverridePresent ==
    /\ pc = "repackage" =>
          /\ OneOverrideEach(work_ct)
          /\ OverridesFor(Pkg(slides[1][1]).ct, InPpt(Presentation)) = {} =>
                work_ct.overrides[Len(work_ct.overrides)]
                    = Override(InPpt(Presentation), PresentationContentType)
    /\ pc = "returned" => OneOverrideEach(output.ct)

\* C27: the skeleton C declares no Override for the presentation; a slide of
\* B was merged into it, and the output declares the presentation and the
\* parts that came from B
C27_Witness ==
    /\ pc = "returned" /\ slides = << <<"C", 1>>, <<"B", 1>> >>
    /\ OverridesFor(PkgC.ct, InPpt(Presentation)) = {}
    /\ Cardinality(OverridesFor(output.ct, InPpt(Presentation))) = 1
    /\ Len(output.ct.overrides) = Len(PkgC.ct.overrides) + 7

\* ------------------------------------------------------------ external targets
\* a Target that is a URL, and a path made of one
ExternalTarget(t) == t.dir # <<>> /\ t.dir[1] = "http:"
UrlPath(q) == \E i \in DOMAIN q.dir : q.dir[i] = "http:"

\* every written .rels file holds the external targets of the source's file
\* as they are
ExternalEntriesKept ==
    pc \in {"slides", "content_types", "repackage"} =>
        \A q \in WrittenRels :
            LET file == work_dir[q]
                old == sources_dir[file.src].files[file.orig].rels
            IN  \A k \in DOMAIN old :
                    ExternalTarget(old[k].Target) => file.rels[k] = old[k]

\* the turn in which _import_part returns the new path of a slide whose
\* relationship closure, the external targets left aside, has all its bytes
\* takes one part number per part it copies: none for an external target
ExternalTakesNoNumber ==
    (/\ pc = "slides" /\ idx <= Len(slides) /\ ValidIndex(slides[idx])
     /\ <<slides[idx][1], FromPpt(WantedPart(slides[idx]))>> \in DOMAIN imported_parts'
     /\ pres_rels_root'[Len(pres_rels_root')].Target
           = AsTarget(imported_parts'[<<slides[idx][1], FromPpt(WantedPart(slides[idx]))>>])
     /\ \A q \in Closure(slides[idx][1], {FromPpt(WantedPart(slides[idx]))}) :
           UrlPath(q) \/ InPpt(q) \in DOMAIN Pkg(slides[idx][1]).files) =>
        CounterSum(next_ids') - CounterSum(next_ids) = Len(copy_log') - Len(copy_log)

\* C28: a relationship of an imported part that points outside the package
\* (a hyperlink to a URL) is written to the new .rels with its Target
\* unchanged, and nothing is imported and no part number is taken for it.
C28_ExternalTargetsUntouched ==
    /\ []ExternalEntriesKept
    /\ [][ExternalTakesNoNumber]_vars
    /\ [](\A i \in DOMAIN copy_log : ~UrlPath(copy_log[i].orig))

\* ------------------------------------------------- merge_slides_to_deck
\* merge_slides_to_deck(slide_specs, output_path, ppts_dir): the merger it
\* builds is sessions[1]; deck holds its loop and the files of ppts_dir.  A
\* session code names its file ppts_dir/<code>.pptx; deck.partial are the
\* files a write that broke off left behind, which are no zip archives.
MaxSpecs == 3
DeckCodes == {"A", "B", "X"}
DeckChoices == {<<"A", 1>>, <<"B", 1>>, <<"X", 1>>}

\* what requests.get and write_bytes can do to one download: status 200 and
\* the file written, another status, an exception before the file is
\* opened, an exception while the file is written
DownloadOutcomes == {"ok", "status", "error", "error_partial"}

\* _download_pptx(url, dest_path): what it returns and ppts_dir after it
DownloadPptx(d, session_code, outcome) ==
    CASE outcome = "ok" ->
           [ok |-> TRUE, ppts_dir |-> d.ppts_dir \cup {session_code},
            partial |-> d.partial \ {session_code}]
      [] outcome = "error_partial" ->
           [ok |-> FALSE, ppts_dir |-> d.ppts_dir \cup {session_code},
            partial |-> d.partial \cup {session_code}]
      [] OTHER ->
           [ok |-> FALSE, ppts_dir |-> d.ppts_dir, partial |-> d.partial]

\* add_slide on the merger record m
AddSlideTo(m, r) ==
    [m EXCEPT !.slides = Append(@, r),
              !.source_map = IF InSeq(r[1], @) THEN @ ELSE Append(@, r[1])]

\* one turn of the loop in which a failed download ends the call
DeckTurn_FailureAborts(d, m, ppt_url, outcome) ==
    LET spec == d.slide_specs[d.k]
        session_code == spec[1]
        got == DownloadPptx(d, session_code, outcome)
        after == [d EXCEPT !.k = @ + 1, !.ppts_dir = got.ppts_dir,
                           !.partial = got.partial]
    IN  IF session_code \in d.ppts_dir
        THEN [deck |-> [d EXCEPT !.k = @ + 1], merger |-> AddSlideTo(m, spec)]
        ELSE IF ~ppt_url
        THEN [deck |-> [d EXCEPT !.k = @ + 1], merger |-> m]
        ELSE IF ~got.ok
        THEN [deck |-> [after EXCEPT !.pc = "raised", !.error = "DownloadError"],
              merger |-> m]
        ELSE [deck |-> after, merger |-> AddSlideTo(m, spec)]

\* one turn of the loop of lines 608-624 for slide_specs[k]: ppt_url is
\* whether the index has a URL for the session, outcome what the download
\* does when it is tried
DeckTurn(d, m, ppt_url, outcome) ==
    LET spec == d.slide_specs[d.k]
        session_code == spec[1]
        got == DownloadPptx(d, session_code, outcome)
        after == [d EXCEPT !.k = @ + 1, !.ppts_dir = got.ppts_dir,
                           !.partial = got.partial]
        continue == [d EXCEPT !.k = @ + 1]
    IN  IF session_code \notin d.ppts_dir
        THEN IF ppt_url
             THEN IF ~got.ok THEN [deck |-> after, merger |-> m]
                  ELSE IF session_code \in after.ppts_dir
                       THEN [deck |-> after, merger |-> AddSlideTo(m, spec)]
                       ELSE [deck |-> after, merger |-> m]
             ELSE [deck |-> continue, merger |-> m]
        ELSE [deck |-> continue, merger |-> AddSlideTo(m, spec)]

\* what happened to the source of slide_specs[k], told from the inputs of
\* the turn alone
Fate(d, ppt_url, outcome) ==
    IF d.slide_specs[d.k][1] \in d.ppts_dir THEN "present"
    ELSE IF ~ppt_url THEN "no_url"
    ELSE IF outcome = "ok" THEN "downloaded"
    ELSE "failed"

\* merge_slides_to_deck is called, lines 602-606: PPTXMerger(output_path)
DeckCall ==
    /\ deck.pc = "idle" /\ sessions = <<>>
    /\ \E n \in 0..MaxSpecs, present \in SUBSET DeckCodes, name \in Mkdtemp(tmp) :
          \E specs \in [1..n -> DeckChoices] :
             /\ deck' = [NoDeck EXCEPT !.pc = "loop", !.slide_specs = specs, !.k = 1,
                                       !.ppts_dir = present]
             /\ sessions' = (1 :> NewMerger(name))
             /\ tmp' = (name :> EmptyDir) @@ tmp
    /\ UNCHANGED <<vars, calls, flow>>

\* the loop of lines 608-624, one slide spec
DeckSpec ==
    /\ deck.pc = "loop" /\ deck.k <= Len(deck.slide_specs)
    /\ \E ppt_url \in BOOLEAN, outcome \in DownloadOutcomes :
          LET turn == DeckTurn(deck, sessions[1], ppt_url, outcome)
          IN  /\ deck' = [turn.deck EXCEPT
                             !.fates = Append(@, Fate(deck, ppt_url, outcome))]
              /\ sessions' = [sessions EXCEPT ![1] = turn.merger]
    /\ UNCHANGED <<vars, calls, tmp, flow>>

\* merger.merge(), line 626, one step of it; a file that is no zip archive
\* makes _extract_sources raise
DeckMerge ==
    /\ deck.pc = "loop" /\ deck.k > Len(deck.slide_specs)
    /\ sessions[1].pc \notin {"returned", "raised"}
    /\ LET m == sessions[1]
           after == IF m.pc = "extract" /\ m.source_map[m.idx] \in deck.partial
                    THEN Raise([m EXCEPT !.extracted_sources =
                                            @ \cup {m.source_map[m.idx]}],
                               tmp, "BadZipFile")
                    ELSE MergeStep(m, tmp)
       IN  /\ sessions' = [sessions EXCEPT ![1] = after.m]
           /\ tmp' = after.d
    /\ UNCHANGED <<vars, calls, deck, flow>>

\* line 627, or the exception of merge() leaving the function
DeckReturn ==
    /\ deck.pc = "loop" /\ deck.k > Len(deck.slide_specs)
    /\ sessions[1].pc \in {"returned", "raised"}
    /\ deck' = [deck EXCEPT !.pc = sessions[1].pc, !.error = sessions[1].error]
    /\ UNCHANGED <<vars, calls, sessions, tmp, flow>>

NextDeck == DeckCall \/ DeckSpec \/ DeckMerge \/ DeckReturn

SpecDeck == Init /\ [][NextDeck]_<<vars, calls, sessions, tmp, deck, flow>>

\* the slide specs whose source was present or was downloaded, in the order
\* of slide_specs
RECURSIVE KeptSpecs(_, _)
KeptSpecs(specs, fates) ==
    IF fates = <<>> THEN <<>>
    ELSE LET n == Len(fates)
             before == KeptSpecs(specs, SubSeq(fates, 1, n - 1))
         IN  IF fates[n] \in {"present", "downloaded"} THEN Append(before, specs[n])
             ELSE before

\* C29: merge_slides_to_deck hands the merger exactly the slide specs whose
\* source file was in ppts_dir or was downloaded with success, in input
\* order, and the file is there when add_slide is called; a spec without a
\* URL or with a failed download is dropped and the specs after it are still
\* looked at; when every spec is dropped the call raises the ValueError of
\* an empty merge and no output file is written
C29_DeckHandsAvailableSpecs ==
    deck.pc # "idle" =>
        /\ Len(deck.fates) = deck.k - 1
        /\ sessions[1].slides = KeptSpecs(deck.slide_specs, deck.fates)
        /\ \A i \in DOMAIN deck.fates :
              deck.fates[i] \in {"present", "downloaded"}
                 => deck.slide_specs[i][1] \in deck.ppts_dir
        /\ deck.pc \in {"returned", "raised"}
              => /\ Len(deck.fates) = Len(deck.slide_specs)
                 /\ deck.error = sessions[1].error
                 /\ sessions[1].slides = <<>>
                       => /\ deck.pc = "raised" /\ deck.error = "ValueError"
                          /\ ~sessions[1].output.exists

C29_Witness ==
    /\ deck.pc = "returned"
    /\ deck.slide_specs = << <<"X", 1>>, <<"B", 1>>, <<"A", 1>> >>
    /\ deck.fates = <<"failed", "downloaded", "present">>
    /\ sessions[1].slides = << <<"B", 1>>, <<"A", 1>> >>
    /\ sessions[1].output.complete

\* ---------------------------------------------- slide selection workflow
MAX_CRITIQUE_ATTEMPTS == 15

\* builder.set_max_iterations(MAX_CRITIQUE_ATTEMPTS * 3)
MaxIterations == MAX_CRITIQUE_ATTEMPTS * 3

has_exceeded_max_attempts(state, max_attempts) == state.current_attempt >= max_attempts

transition_to_phase(state, to_node) == [state EXCEPT !.phase = to_node]

\* the edges of build_slide_selection_workflow: where a message an executor
\* sent goes, "none" when no edge takes it
Route(from, state) ==
    CASE from = "search" /\ state.phase = "offer" -> "offer"
      [] from = "offer" /\ state.phase = "critique" -> "critique"
      [] from = "offer" /\ state.phase = "judge" -> "judge"
      [] from = "offer" /\ state.phase = "search" -> "search"
      [] from = "critique" /\ state.phase = "search" -> "search"
      [] from = "critique" /\ state.phase = "judge" -> "judge"
      [] OTHER -> "none"

Sent(state) == [state |-> state, send |-> TRUE, output |-> FALSE]
Yielded(state) == [state |-> state, send |-> FALSE, output |-> TRUE]

\* SearchExecutor.handle: found is whether the search left candidates
SearchHandle(state, found) ==
    LET searched == [state EXCEPT !.current_candidates = found]
    IN  Sent(transition_to_phase(searched, IF found THEN "offer" ELSE "done"))

\* OfferExecutor.handle and _handle_selection_result: selected is whether
\* the agent named a slide that exists
OfferHandle(state, selected) ==
    IF has_exceeded_max_attempts(state, MAX_CRITIQUE_ATTEMPTS)
    THEN Sent(transition_to_phase(state, "judge"))
    ELSE IF ~state.current_candidates
    THEN Sent(transition_to_phase(state, "done"))
    ELSE IF selected
    THEN Sent(transition_to_phase([state EXCEPT !.current_selection = TRUE], "critique"))
    ELSE Sent(transition_to_phase([state EXCEPT !.current_selection = FALSE,
                                                !.current_attempt = @ + 1], "search"))

\* CritiqueExecutor._handle_rejection
HandleRejection(state) ==
    LET counted == [state EXCEPT !.current_selection = FALSE, !.current_attempt = @ + 1]
    IN  IF has_exceeded_max_attempts(counted, MAX_CRITIQUE_ATTEMPTS)
        THEN Sent(transition_to_phase(counted, "judge"))
        ELSE Sent(transition_to_phase(counted, "search"))

\* CritiqueExecutor.handle: the attempt is recorded, then approval yields
\* the state and rejection sends it on
CritiqueHandle(state, approved) ==
    LET recorded == [state EXCEPT !.conversation_history = @ + 1]
    IN  IF approved
        THEN Yielded(transition_to_phase([recorded EXCEPT !.selected_slide = "critique"],
                                         "done"))
        ELSE HandleRejection(recorded)

\* JudgeExecutor.handle: picked is whether the judge named one of the tried
\* slides
JudgeHandle(state, picked) ==
    LET judged == IF state.conversation_history > 0 /\ picked
                  THEN [state EXCEPT !.selected_slide = "judge"]
                  ELSE state
    IN  Yielded(transition_to_phase(judged, "done"))

\* the workflow after the executor from ran with the result r
After(f, from, r) ==
    [f EXCEPT !.state = r.state,
              !.to = IF r.send THEN Route(from, r.state) ELSE "none",
              !.outputs = IF r.output THEN @ + 1 ELSE @,
              !.judge_ran = @ \/ from = "judge"]

Superstep(f, from, r) == [After(f, from, r) EXCEPT !.iteration = @ + 1]

\* workflow.run(initial_state): the start executor runs on the state
FlowRun ==
    /\ flow.pc = "idle"
    /\ \E found \in BOOLEAN :
          flow' = [After(flow, "search", SearchHandle(flow.state, found))
                      EXCEPT !.pc = "running"]
    /\ UNCHANGED <<vars, calls, sessions, tmp, deck>>

CanStep(executor) ==
    flow.pc = "running" /\ flow.to = executor /\ flow.iteration < MaxIterations

RunSearch ==
    /\ CanStep("search")
    /\ \E found \in BOOLEAN :
          flow' = Superstep(flow, "search", SearchHandle(flow.state, found))
    /\ UNCHANGED <<vars, calls, sessions, tmp, deck>>

RunOffer ==
    /\ CanStep("offer")
    /\ \E selected \in BOOLEAN :
          flow' = Superstep(flow, "offer", OfferHandle(flow.state, selected))
    /\ UNCHANGED <<vars, calls, sessions, tmp, deck>>

RunCritique ==
    /\ CanStep("critique")
    /\ \E approved \in BOOLEAN :
          flow' = Superstep(flow, "critique", CritiqueHandle(flow.state, approved))
    /\ UNCHANGED <<vars, calls, sessions, tmp, deck>>

RunJudge ==
    /\ CanStep("judge")
    /\ \E picked \in BOOLEAN :
          flow' = Superstep(flow, "judge", JudgeHandle(flow.state, picked))
    /\ UNCHANGED <<vars, calls, sessions, tmp, deck>>

\* no message is in flight: the run ends
FlowConverged ==
    /\ flow.pc = "running" /\ flow.to = "none"
    /\ flow' = [flow EXCEPT !.pc = "converged"]
    /\ UNCHANGED <<vars, calls, sessions, tmp, deck>>

\* max_iterations supersteps are done and a message is still in flight: the
\* run ends with an error
FlowCapReached ==
    /\ flow.pc = "running" /\ flow.to # "none" /\ flow.iteration >= MaxIterations
    /\ flow' = [flow EXCEPT !.pc = "failed"]
    /\ UNCHANGED <<vars, calls, sessions, tmp, deck>>

NextFlow ==
    \/ FlowRun \/ RunSearch \/ RunOffer \/ RunCritique \/ RunJudge
    \/ FlowConverged \/ FlowCapReached

SpecFlow == Init /\ [][NextFlow]_<<vars, calls, sessions, tmp, deck, flow>>

FlowEnded == flow.pc \in {"converged", "failed"}

\* C30: a run of the workflow whose attempt counter reached
\* MAX_CRITIQUE_ATTEMPTS without an approved slide ends after the judge ran,
\* in phase done and with an output state, and no run ends on the iteration
\* cap before the judge ran
C30_JudgeRunsAtMaxAttempts ==
    /\ flow.pc = "failed" => flow.judge_ran
    /\ (/\ FlowEnded
        /\ flow.state.current_attempt >= MAX_CRITIQUE_ATTEMPTS
        /\ flow.state.selected_slide # "critique")
          => /\ flow.judge_ran
             /\ flow.state.phase = "done"
             /\ flow.outputs > 0

====
